---- MODULE Spec2Model ----
(***************************************************************************)
(* RoboSafe Sentinel: the safety state machine (core/state_machine.py),    *)
(* the signal store with its watchdog (core/signal_manager.py), the rule   *)
(* engine with the welding-cell rules (core/rule_engine.py) and the        *)
(* orchestrator with the recommendations of the decision agent             *)
(* (agents/orchestrator_agent.py, agents/decision_agent.py) and the        *)
(* executors registered for it (integration.py); the analysis agent's     *)
(* global risk (agents/analysis_agent.py), the agents' life cycle          *)
(* (agents/base_agent.py) and the loop of integration.py with its own      *)
(* distance rules.                                                         *)
(*                                                                         *)
(* Time is an integer number of milliseconds.  The coroutines of the state *)
(* machine, the store and the engine run without suspending (the asyncio   *)
(* locks are never held across an await, so acquiring them never yields):  *)
(* each is one atomic action.  update_signal notifies the subscribers      *)
(* after releasing the lock, and a coroutine callback may suspend it there *)
(* (notifying).  The orchestrator's loop is one task, fed by its inbox     *)
(* (agents/base_agent.py); an executor that awaits the PLC driver may      *)
(* suspend it (in_executor).                                               *)
(***************************************************************************)
EXTENDS Integers, Sequences, FiniteSets, TLC

VARIABLES
    now,               \* datetime.now(), in ms
    current_state,     \* SafetyStateMachine._current_state
    previous_state,    \* SafetyStateMachine._previous_state
    history,           \* SafetyStateMachine._history
    state_entered_at,  \* SafetyStateMachine._state_entered_at
    lastCall,          \* the last call of transition_to: its arguments, the
                       \* state it was issued in, what it returned and whether
                       \* it invoked the on-transition callback
    definitions,       \* SignalManager._definitions
    signals,           \* SignalManager._signals
    subscribers,       \* SignalManager._subscribers (names of callbacks)
    global_subscribers,\* SignalManager._global_subscribers
    notifying,         \* the _notify_subscribers coroutines suspended in a
                       \* callback: the signal and the place in the loops
    received,          \* for each callback, the signals it was called with
    rules,             \* RuleEngine._rules: the mutable part of each Rule
    rules_by_priority, \* RuleEngine._rules_by_priority (rule ids)
    stats,             \* RuleEngine._eval_count, _trigger_count, _error_count
    lastResults,       \* the list the last evaluate_all returned
    action_id,         \* DecisionAgent._action_id
    pending,           \* OrchestratorAgent._pending_recommendations
    executions,        \* OrchestratorAgent._active_executions, in insertion order
    in_executor,       \* whether the orchestrator's task is suspended in an
                       \* executor that does not return
    lastExecuted,      \* the recommendation last passed to _execute_action
    audit_log,         \* OrchestratorAgent._audit_log
    inbox,             \* BaseAgent._inbox of the orchestrator
    metrics,           \* BaseAgent._metrics: messages_received,
                       \* messages_dropped, cycles_executed
    lastHandled,       \* the messages the last _process_inbox passed to
                       \* handle_message
    agent_state,       \* BaseAgent._state
    running,           \* BaseAgent._running
    loop_task,         \* BaseAgent._task: none, the _main_loop task running,
                       \* or that task cancelled
    risk_scores,       \* AnalysisAgent._risk_scores
    risk_update,       \* the payload of the last risk_update message the
                       \* analysis agent sent
    decision_risk,     \* DecisionAgent._global_risk and _current_risks
    action_history,    \* DecisionAgent._action_history
    sent               \* the recommendations the decision agent has sent to
                       \* the orchestrator, each with the time it was sent at

smVars == <<current_state, previous_state, history, state_entered_at, lastCall>>
notifyVars == <<subscribers, global_subscribers, notifying, received>>
storeVars == <<definitions, signals, notifyVars>>
engineVars == <<rules, rules_by_priority, stats, lastResults>>
lifecycleVars == <<agent_state, running, loop_task>>
riskVars == <<risk_scores, risk_update, decision_risk, action_history, sent>>
agentVars == <<inbox, metrics, lastHandled, lifecycleVars, riskVars>>
orchVars == <<action_id, pending, executions, in_executor, lastExecuted, audit_log,
              agentVars>>
vars == <<now, smVars, storeVars, engineVars, orchVars>>

----------------------------------------------------------------------------
(* Bounds of the model *)

\* number of clock ticks explored
MaxTicks == 2
\* the max_history constructor argument of SafetyStateMachine
MaxHistory == 2
\* length of one clock tick in ms
TickMs == 300
\* number of evaluate_all cycles explored
MaxEvals == 2
\* number of clock ticks explored with the rule engine, and their length in ms
MaxEngineTicks == 1
EngineTickMs == 5000
\* number of clock ticks explored with the orchestrator, and their length in ms
MaxOrchTicks == 1
OrchTickMs == 6000
\* number of recommendations the decision agent makes
MaxRecs == 2
\* length of the pending lists arbitration is explored on
MaxPending == 3
\* number of executions the orchestrator starts
MaxExecs == 2
\* AgentConfig.max_queue_size of the orchestrator
max_queue_size == 12
\* with the inbox: length in ms of the one clock tick, number of
\* recommendations sent, of turns of the orchestrator's loop
InboxTickMs == 11000
MaxInboxRecs == 1
MaxCycles == 1
\* number of callbacks subscribed to the store, and of writes notified
MaxSubscribers == 2
\* with the decision agent: number of clock ticks and their length in ms,
\* number of recommendations it builds
MaxDecisionTicks == 3
DecisionTickMs == 1000
MaxDecisions == 4
\* with the agent's life cycle: number of entries start and stop log
MaxLifecycleAudits == 3
\* with the rule engine's registry: number of register_rule calls
MaxRegistered == 4
\* with the loop of integration.py: number of its turns
MaxTurns == 5
MaxWrites == 3

----------------------------------------------------------------------------
(* core/state_machine.py *)

INIT == "INIT"
NORMAL == "NORMAL"
WARNING == "WARNING"
SLOW_50 == "SLOW_50"
SLOW_25 == "SLOW_25"
STOP == "STOP"
ESTOP == "ESTOP"
RECOVERY == "RECOVERY"
FALLBACK == "FALLBACK"

SafetyState == {INIT, NORMAL, WARNING, SLOW_50, SLOW_25, STOP, ESTOP, RECOVERY, FALLBACK}

\* the value None of an Optional field
NoState == "NONE"

max_speed_percent(s) ==
    CASE s = INIT -> 0
      [] s = NORMAL -> 100
      [] s = WARNING -> 100
      [] s = SLOW_50 -> 50
      [] s = SLOW_25 -> 25
      [] s = STOP -> 0
      [] s = ESTOP -> 0
      [] s = RECOVERY -> 10
      [] s = FALLBACK -> 50
      [] OTHER -> 0

allows_production(s) == s \in {NORMAL, WARNING, SLOW_50, SLOW_25}

\* VALID_TRANSITIONS with NORMAL added to the targets of ESTOP
VALID_TRANSITIONS_estop_to_normal(s) ==
    CASE s = INIT -> {NORMAL, FALLBACK, ESTOP}
      [] s = NORMAL -> {WARNING, SLOW_50, SLOW_25, STOP, ESTOP, FALLBACK}
      [] s = WARNING -> {NORMAL, SLOW_50, SLOW_25, STOP, ESTOP, FALLBACK}
      [] s = SLOW_50 -> {NORMAL, WARNING, SLOW_25, STOP, ESTOP, FALLBACK}
      [] s = SLOW_25 -> {NORMAL, WARNING, SLOW_50, STOP, ESTOP, FALLBACK}
      [] s = STOP -> {RECOVERY, ESTOP, FALLBACK}
      [] s = ESTOP -> {RECOVERY, NORMAL}
      [] s = RECOVERY -> {NORMAL, STOP, ESTOP, FALLBACK}
      [] s = FALLBACK -> {NORMAL, RECOVERY, ESTOP}
      [] OTHER -> {}

VALID_TRANSITIONS(s) ==
    CASE s = INIT -> {NORMAL, FALLBACK, ESTOP}
      [] s = NORMAL -> {WARNING, SLOW_50, SLOW_25, STOP, ESTOP, FALLBACK}
      [] s = WARNING -> {NORMAL, SLOW_50, SLOW_25, STOP, ESTOP, FALLBACK}
      [] s = SLOW_50 -> {NORMAL, WARNING, SLOW_25, STOP, ESTOP, FALLBACK}
      [] s = SLOW_25 -> {NORMAL, WARNING, SLOW_50, STOP, ESTOP, FALLBACK}
      [] s = STOP -> {RECOVERY, ESTOP, FALLBACK}
      [] s = ESTOP -> {RECOVERY}
      [] s = RECOVERY -> {NORMAL, STOP, ESTOP, FALLBACK}
      [] s = FALLBACK -> {NORMAL, RECOVERY, ESTOP}
      [] OTHER -> {}

\* can_transition_to with every target allowed (the table is not consulted)
can_transition_to_any(cur, target) == TRUE

\* can_transition_to, on the current state cur
can_transition_to(cur, target) ==
    IF cur = target THEN TRUE ELSE target \in VALID_TRANSITIONS(cur)

\* The machine as a record, so that a caller (the rule engine) can thread it
\* through several calls of one cycle.
Machine == [current |-> current_state, previous |-> previous_state,
            history |-> history, entered_at |-> state_entered_at,
            call |-> lastCall]

\* a bounded history that keeps the oldest entries and evicts the new one
AppendBounded_keeping_oldest(h, t) ==
    LET a == Append(h, t)
    IN  IF Len(a) > MaxHistory THEN SubSeq(a, 1, MaxHistory) ELSE a

\* the history after appending t: only the last max_history entries are kept
AppendBounded(h, t) ==
    LET a == Append(h, t)
    IN  IF Len(a) > MaxHistory THEN SubSeq(a, Len(a) - MaxHistory + 1, Len(a)) ELSE a

\* transition_to without the same-state test of its first lines
transition_to_no_same_state_test(m, t, target, via, rule_id, force) ==
    LET call == [op |-> via, from |-> m.current, target |-> target, force |-> force,
                 ret |-> TRUE, notified |-> FALSE]
    IN  IF ~force /\ ~can_transition_to(m.current, target)
        THEN [m EXCEPT !.call = [call EXCEPT !.ret = FALSE]]
        ELSE [current |-> target,
              previous |-> m.current,
              entered_at |-> t,
              history |-> AppendBounded(m.history,
                              [from_state |-> m.current, to_state |-> target,
                               trigger |-> via, rule_id |-> rule_id]),
              call |-> [call EXCEPT !.notified = TRUE]]

\* transition_to(target, trigger=via, rule_id, force) on machine m at time t.
\* via names the entry point the call came through; it is the trigger text
\* of the StateTransition.  The record's timestamp is left out: it equals
\* _state_entered_at while the record is the newest one, and nothing reads it.
transition_to(m, t, target, via, rule_id, force) ==
    LET call == [op |-> via, from |-> m.current, target |-> target, force |-> force,
                 ret |-> TRUE, notified |-> FALSE]
    IN  IF m.current = target
        THEN [m EXCEPT !.call = call]
        ELSE IF ~force /\ ~can_transition_to(m.current, target)
        THEN [m EXCEPT !.call = [call EXCEPT !.ret = FALSE]]
        ELSE [current |-> target,
              previous |-> m.current,
              entered_at |-> t,
              history |-> AppendBounded(m.history,
                              [from_state |-> m.current, to_state |-> target,
                               trigger |-> via, rule_id |-> rule_id]),
              call |-> [call EXCEPT !.notified = TRUE]]

request_estop(m, t, rule_id) == transition_to(m, t, ESTOP, "request_estop", rule_id, TRUE)

request_stop(m, t, rule_id) == transition_to(m, t, STOP, "request_stop", rule_id, FALSE)

request_slow(m, t, speed_percent, rule_id) ==
    transition_to(m, t, IF speed_percent <= 25 THEN SLOW_25 ELSE SLOW_50,
                  "request_slow", rule_id, FALSE)

request_recovery(m, t) == transition_to(m, t, RECOVERY, "request_recovery", "NONE", FALSE)

request_normal(m, t) == transition_to(m, t, NORMAL, "request_normal", "NONE", FALSE)

\* enter_fallback without force=True
enter_fallback_unforced(m, t) ==
    transition_to(m, t, FALLBACK, "enter_fallback", "NONE", FALSE)

enter_fallback(m, t) == transition_to(m, t, FALLBACK, "enter_fallback", "NONE", TRUE)

\* the machine's variables become the record m
SetMachine(m) ==
    /\ current_state' = m.current
    /\ previous_state' = m.previous
    /\ history' = m.history
    /\ state_entered_at' = m.entered_at
    /\ lastCall' = m.call

NoCall == [op |-> "none", from |-> NoState, target |-> NoState,
           force |-> FALSE, ret |-> TRUE, notified |-> FALSE]

\* SafetyStateMachine(): initial_state has its default, INIT
SMInit ==
    /\ current_state = INIT
    /\ previous_state = NoState
    /\ history = <<>>
    /\ state_entered_at = 0
    /\ lastCall = NoCall

----------------------------------------------------------------------------
(* core/signal_manager.py *)

GOOD == "good"
DEGRADED == "degraded"
BAD == "bad"
TIMEOUT == "timeout"
UNKNOWN == "unknown"

SignalQuality == {GOOD, DEGRADED, BAD, TIMEOUT, UNKNOWN}

\* Python's None, among integer values (no signal takes a negative value)
None == -1

\* Signal values: integers; False and True are 0 and 1 (as in Python), the
\* robot modes are strings, and the ratio fumes_vlep_ratio is counted in
\* tenths (1.2 is 12).
WeldingSignalIds ==
    {"fanuc_tcp_speed", "fanuc_mode", "fanuc_servo_on", "plc_heartbeat",
     "scanner_zone_status", "scanner_min_distance", "estop_status", "arc_on",
     "weld_current", "fumes_concentration", "fumes_vlep_ratio", "vision_presence",
     "vision_min_distance", "vision_confidence", "robosafe_risk_score"}

\* get_welding_cell_signals(): the definition of each id (timeout in ms)
get_welding_cell_signals(id) ==
    CASE id = "fanuc_tcp_speed" -> [timeout_ms |-> 100, fail_safe_value |-> 0, critical |-> TRUE]
      [] id = "fanuc_mode" -> [timeout_ms |-> 500, fail_safe_value |-> "T1", critical |-> TRUE]
      [] id = "fanuc_servo_on" -> [timeout_ms |-> 100, fail_safe_value |-> 0, critical |-> TRUE]
      [] id = "plc_heartbeat" -> [timeout_ms |-> 500, fail_safe_value |-> 0, critical |-> TRUE]
      [] id = "scanner_zone_status" -> [timeout_ms |-> 100, fail_safe_value |-> 255, critical |-> TRUE]
      [] id = "scanner_min_distance" -> [timeout_ms |-> 100, fail_safe_value |-> 0, critical |-> TRUE]
      [] id = "estop_status" -> [timeout_ms |-> 100, fail_safe_value |-> 255, critical |-> TRUE]
      [] id = "arc_on" -> [timeout_ms |-> 200, fail_safe_value |-> 0, critical |-> FALSE]
      [] id = "weld_current" -> [timeout_ms |-> 1000, fail_safe_value |-> 0, critical |-> FALSE]
      [] id = "fumes_concentration" -> [timeout_ms |-> 5000, fail_safe_value |-> 50, critical |-> FALSE]
      [] id = "fumes_vlep_ratio" -> [timeout_ms |-> 5000, fail_safe_value |-> 10, critical |-> FALSE]
      [] id = "vision_presence" -> [timeout_ms |-> 500, fail_safe_value |-> 1, critical |-> TRUE]
      [] id = "vision_min_distance" -> [timeout_ms |-> 500, fail_safe_value |-> 0, critical |-> TRUE]
      [] id = "vision_confidence" -> [timeout_ms |-> 500, fail_safe_value |-> 0, critical |-> FALSE]
      [] id = "robosafe_risk_score" -> [timeout_ms |-> 1000, fail_safe_value |-> 100, critical |-> FALSE]

\* Signal.is_valid
is_valid(signal) == signal.quality \in {GOOD, DEGRADED}

\* The store as a record, so that a batch can thread it through its updates.
Store == [definitions |-> definitions, signals |-> signals]

\* dict.get(k, default)
Get(s, k, default) == IF k \in DOMAIN s THEN s[k] ELSE default

\* f with key k set to v, k being added to the domain if needed (d[k] = v)
SetKey(f, k, v) == [x \in DOMAIN f \cup {k} |-> IF x = k THEN v ELSE f[x]]

\* register_signal(definition), definition being the welding-cell one of id
register_signal(st, id, definition, t) ==
    [definitions |-> SetKey(st.definitions, id, definition),
     signals |-> SetKey(st.signals, id,
                        [value |-> definition.fail_safe_value,
                         timestamp |-> t,
                         quality |-> UNKNOWN,
                         fail_safe_value |-> definition.fail_safe_value])]

\* update_signal(signal_id, value, quality, timestamp) at time t: the store
\* after the call, the value returned, the counters of the SignalManager the
\* call increments (_update_count and _timeout_count are its only counters)
\* and whether it goes on to _notify_subscribers
update_signal(st, id, value, quality, timestamp, t) ==
    IF id \notin DOMAIN st.definitions
    THEN [store |-> st, ret |-> FALSE, incremented |-> {}, notifies |-> FALSE]
    ELSE [store |->
            [st EXCEPT !.signals =
                SetKey(st.signals, id,
                       [value |-> value,
                        timestamp |-> IF timestamp = None THEN t ELSE timestamp,
                        quality |-> quality,
                        fail_safe_value |-> st.definitions[id].fail_safe_value])],
          ret |-> TRUE, incremented |-> {"_update_count"}, notifies |-> TRUE]

\* update_signals_batch(updates, quality) at time t; updates is a function from
\* ids to values and ids is the part of its domain still to be written.  The
\* updates are of distinct ids, so the order of the dict does not matter.
RECURSIVE update_signals_batch(_, _, _, _, _)
update_signals_batch(st, updates, ids, quality, t) ==
    IF ids = {}
    THEN [store |-> st, count |-> 0]
    ELSE LET id == CHOOSE x \in ids : TRUE
             one == update_signal(st, id, updates[id], quality, t, t)
             rest == update_signals_batch(one.store, updates, ids \ {id}, quality, t)
         IN  [store |-> rest.store,
              count |-> rest.count + (IF one.ret THEN 1 ELSE 0)]

\* _check_timeouts() at time t
check_timeouts(st, t) ==
    [st EXCEPT !.signals =
        [id \in DOMAIN st.signals |->
            LET signal == st.signals[id]
            IN  IF id \notin DOMAIN st.definitions
                THEN signal
                ELSE IF /\ t - signal.timestamp > st.definitions[id].timeout_ms
                        /\ signal.quality # TIMEOUT
                THEN [value |-> signal.fail_safe_value,
                      timestamp |-> signal.timestamp,
                      quality |-> TIMEOUT,
                      fail_safe_value |-> signal.fail_safe_value]
                ELSE signal]]

\* get_signal_value(signal_id, default, use_failsafe_if_invalid)
get_signal_value(st, id, default, use_failsafe_if_invalid) ==
    IF id \notin DOMAIN st.signals
    THEN default
    ELSE IF ~is_valid(st.signals[id]) /\ use_failsafe_if_invalid
    THEN st.signals[id].fail_safe_value
    ELSE st.signals[id].value

\* the callbacks of the subscribers: by name; those of CoroutineCallbacks are
\* coroutine functions (asyncio.iscoroutinefunction), awaited by
\* _notify_subscribers, and may suspend; the others are plain functions
Callbacks == {"async_callback", "plain_callback"}
CoroutineCallbacks == {"async_callback"}

\* subscribe(signal_id, callback)
subscribe(subs, id, callback) == SetKey(subs, id, Append(Get(subs, id, << >>), callback))

\* subscribe_all(callback)
subscribe_all(glob, callback) == Append(glob, callback)

\* _notify_subscribers(signal), from the callback at place i of the loop over
\* the subscribers of the signal's id (loop 1) or over the global subscribers
\* (loop 2), to the end or to the first suspension.  Each callback called gets
\* the signal: rcv is what the callbacks have received.  k tells which of the
\* callbacks called from here on suspends, if it is a coroutine: the k-th
\* (none for k = 0); the coroutine is then parked at that place.  A callback
\* that raises is logged and the loop goes on, as for one that returns.
RECURSIVE notify_subscribers(_, _, _, _, _, _, _)
notify_subscribers(subs, glob, rcv, signal, loop, i, k) ==
    LET callbacks == IF loop = 1 THEN Get(subs, signal.id, << >>) ELSE glob
        got == SetKey(rcv, callbacks[i], Append(Get(rcv, callbacks[i], << >>), signal))
    IN  IF i > Len(callbacks)
        THEN IF loop = 1
             THEN notify_subscribers(subs, glob, rcv, signal, 2, 1, k)
             ELSE [received |-> rcv, parked |-> << >>]
        ELSE IF k = 1 /\ callbacks[i] \in CoroutineCallbacks
        THEN [received |-> got,
              parked |-> <<[signal |-> signal, loop |-> loop, i |-> i]>>]
        ELSE notify_subscribers(subs, glob, got, signal, loop, i + 1,
                                IF k > 0 THEN k - 1 ELSE 0)

\* the store's variables become the record st
SetStore(st) ==
    /\ definitions' = st.definitions
    /\ signals' = st.signals

\* SignalManager(): no subscriber
NotifyInit ==
    /\ subscribers = << >>
    /\ global_subscribers = << >>
    /\ notifying = << >>
    /\ received = << >>

\* SignalManager(): no definition, no signal
StoreInit ==
    /\ definitions = << >>
    /\ signals = << >>
    /\ NotifyInit

----------------------------------------------------------------------------
(* core/rule_engine.py *)

\* RulePriority: P0_CRITICAL = 0 .. P4_DIAGNOSTIC = 4
RulePriority == 0 .. 4

\* get_welding_cell_rules(): the rule ids, in the order of the list
WeldingRuleIds ==
    <<"RS-001", "RS-002", "RS-004", "RS-010", "RS-011", "RS-013", "RS-020",
      "RS-021", "RS-023", "RS-030", "RS-032", "RS-035", "RS-040", "RS-041">>

\* get_welding_cell_rules(): priority, action types and cooldown of each rule
get_welding_cell_rules(id) ==
    CASE id = "RS-001" -> [priority |-> 0, actions |-> <<"estop", "log">>, cooldown_ms |-> 0]
      [] id = "RS-002" -> [priority |-> 0, actions |-> <<"estop", "alert">>, cooldown_ms |-> 0]
      [] id = "RS-004" -> [priority |-> 0, actions |-> <<"estop", "alert">>, cooldown_ms |-> 0]
      [] id = "RS-010" -> [priority |-> 1, actions |-> <<"stop_cat1", "log">>, cooldown_ms |-> 0]
      [] id = "RS-011" -> [priority |-> 1, actions |-> <<"stop_cat1", "log">>, cooldown_ms |-> 0]
      [] id = "RS-013" -> [priority |-> 1, actions |-> <<"stop_cat1", "alert">>, cooldown_ms |-> 5000]
      [] id = "RS-020" -> [priority |-> 2, actions |-> <<"slow_50">>, cooldown_ms |-> 0]
      [] id = "RS-021" -> [priority |-> 2, actions |-> <<"slow_50">>, cooldown_ms |-> 0]
      [] id = "RS-023" -> [priority |-> 2, actions |-> <<"slow_25", "alert">>, cooldown_ms |-> 10000]
      [] id = "RS-030" -> [priority |-> 3, actions |-> <<"alert", "log">>, cooldown_ms |-> 30000]
      [] id = "RS-032" -> [priority |-> 3, actions |-> <<"alert", "log">>, cooldown_ms |-> 60000]
      [] id = "RS-035" -> [priority |-> 3, actions |-> <<"alert">>, cooldown_ms |-> 86400000]
      [] id = "RS-040" -> [priority |-> 4,
                           actions |-> <<"set_degraded", "alert", "increase_margin">>,
                           cooldown_ms |-> 0]
      [] id = "RS-041" -> [priority |-> 4, actions |-> <<"set_degraded", "alert">>,
                           cooldown_ms |-> 0]

\* the distance rules RoboSafeSentinel._setup_safety_rules registers in the
\* engine of integration.py.  Their ids there are RS-001, RS-002 and RS-003;
\* they are prefixed here to keep them apart from the welding-cell rules of
\* the same ids, which belong to another engine.  Their actions are built
\* with the strings "ESTOP", "SLOW_25" and "SLOW_50" as action_type, not with
\* members of ActionType (whose values are "estop", "slow_25", "slow_50").
SafetyRuleIds == <<"integration:RS-001", "integration:RS-002", "integration:RS-003">>

setup_safety_rules(id) ==
    CASE id = "integration:RS-001" -> [priority |-> 0, actions |-> <<"ESTOP">>, cooldown_ms |-> 0]
      [] id = "integration:RS-002" -> [priority |-> 1, actions |-> <<"SLOW_25">>, cooldown_ms |-> 0]
      [] id = "integration:RS-003" -> [priority |-> 2, actions |-> <<"SLOW_50">>, cooldown_ms |-> 0]

\* the Rule registered under an id
RuleOf(id) ==
    IF id \in {SafetyRuleIds[k] : k \in DOMAIN SafetyRuleIds}
    THEN setup_safety_rules(id)
    ELSE get_welding_cell_rules(id)

\* the truth value Python gives an integer or None
Truthy(v) == v # 0 /\ v # None

\* (v & 2^bit) != 0
BitSet(v, bit) == (v \div (2 ^ bit)) % 2 = 1

\* the condition (lambda) of each rule, on the snapshot s
condition(id, s) ==
    CASE id = "RS-001" -> Get(s, "estop_status", 0) # 0
      [] id = "RS-002" -> Get(s, "plc_heartbeat", None) = None
      [] id = "RS-004" -> /\ Truthy(Get(s, "arc_on", 0))
                          /\ Get(s, "door_status", "closed") = "open"
      [] id = "RS-010" -> BitSet(Get(s, "scanner_zone_status", 0), 2)
      [] id = "RS-011" -> /\ Truthy(Get(s, "vision_presence", 0))
                          /\ Get(s, "vision_min_distance", 10000) < 800
                          /\ Get(s, "fanuc_mode", "None") = "AUTO"
      [] id = "RS-013" -> Get(s, "fumes_vlep_ratio", 0) > 12
      [] id = "RS-020" -> BitSet(Get(s, "scanner_zone_status", 0), 1)
      [] id = "RS-021" -> /\ Truthy(Get(s, "vision_presence", 0))
                          /\ 800 <= Get(s, "vision_min_distance", 10000)
                          /\ Get(s, "vision_min_distance", 10000) < 1500
                          /\ Get(s, "fanuc_mode", "None") = "AUTO"
      [] id = "RS-023" -> /\ 10 < Get(s, "fumes_vlep_ratio", 0)
                          /\ Get(s, "fumes_vlep_ratio", 0) <= 12
      [] id = "RS-030" -> /\ 8 < Get(s, "fumes_vlep_ratio", 0)
                          /\ Get(s, "fumes_vlep_ratio", 0) <= 10
      [] id = "RS-032" -> /\ Truthy(Get(s, "arc_on", 0))
                          /\ Truthy(Get(s, "vision_presence", 0))
                          /\ Get(s, "fanuc_mode", "None") = "AUTO"
      [] id = "RS-035" -> Get(s, "override_count_week", 0) > 3
      [] id = "RS-040" -> Get(s, "camera_status", "None") = "fault"
      [] id = "RS-041" -> Get(s, "fumes_sensor_status", "None") = "fault"
      [] id = "integration:RS-001" -> Get(s, "scanner_min_distance", 10000) < 500
      [] id = "integration:RS-002" -> /\ 500 <= Get(s, "scanner_min_distance", 10000)
                                      /\ Get(s, "scanner_min_distance", 10000) < 800
      [] id = "integration:RS-003" -> /\ 800 <= Get(s, "scanner_min_distance", 10000)
                                      /\ Get(s, "scanner_min_distance", 10000) < 1200

\* get_signal_values(): the snapshot a rule's condition is evaluated on
get_signal_values(st) == [id \in DOMAIN st.signals |-> st.signals[id].value]

\* whether the condition (lambda) of a welding-cell rule raises on the
\* snapshot s: TypeError, when None reaches an ordering comparison or a
\* bitwise and
condition_raises(id, s) ==
    CASE id \in {"RS-010", "RS-020"} -> Get(s, "scanner_zone_status", 0) = None
      [] id \in {"RS-011", "RS-021"} -> /\ Truthy(Get(s, "vision_presence", 0))
                                        /\ Get(s, "vision_min_distance", 10000) = None
      [] id \in {"RS-013", "RS-023", "RS-030"} -> Get(s, "fumes_vlep_ratio", 0) = None
      [] id = "RS-035" -> Get(s, "override_count_week", 0) = None
      [] OTHER -> FALSE

\* Rule.mark_triggered() at time t.  _last_triggered is kept for the rules
\* that have a cooldown only: can_trigger returns before reading it when
\* cooldown_ms <= 0, and nothing else reads it.
mark_triggered(rule, cooldown_ms, t) ==
    [rule EXCEPT !.last_triggered = IF cooldown_ms > 0 THEN t ELSE @,
                 !.trigger_count = @ + 1]

\* a can_trigger that ignores the cooldown
can_trigger_always(rule, cooldown_ms, t) == TRUE

\* Rule.can_trigger() at time t
can_trigger(rule, cooldown_ms, t) ==
    IF cooldown_ms <= 0 \/ rule.last_triggered = None
    THEN TRUE
    ELSE t - rule.last_triggered >= cooldown_ms

\* _execute_action(rule_id, action) on machine m at time t; raises tells
\* whether the call made on the state machine raises, which the handler of
\* _execute_action traps and logs
execute_action(m, t, rule_id, action, raises) ==
    IF raises
    THEN m
    ELSE CASE action = "estop" -> request_estop(m, t, rule_id)
           [] action = "stop_cat1" -> request_stop(m, t, rule_id)
           [] action = "slow_50" -> request_slow(m, t, 50, rule_id)
           [] action = "slow_25" -> request_slow(m, t, 25, rule_id)
           [] OTHER -> m

\* the actions of a triggered rule, executed in their order from the i-th on;
\* faults are the <<rule id, index>> of the actions whose call raises
RECURSIVE execute_actions(_, _, _, _, _, _)
execute_actions(m, t, rule_id, actions, i, faults) ==
    IF i > Len(actions)
    THEN m
    ELSE execute_actions(execute_action(m, t, rule_id, actions[i],
                                        <<rule_id, i>> \in faults),
                         t, rule_id, actions, i + 1, faults)

\* RuleResult(rule_id, triggered=False)
RuleResult(id) ==
    [rule_id |-> id, triggered |-> FALSE, error |-> FALSE, actions_executed |-> << >>]

\* an evaluate_rule that does not look at Rule.enabled
evaluate_rule_ignoring_enabled(rs, ec, m, st, t, id, faults) ==
    LET def == RuleOf(id)
        s == get_signal_values(st)
        idle == [rules |-> rs, stats |-> ec, machine |-> m, result |-> RuleResult(id)]
    IN  IF ~can_trigger(rs[id], def.cooldown_ms, t)
        THEN idle
        ELSE IF condition_raises(id, s)
        THEN [idle EXCEPT !.stats.error_count = @ + 1, !.result.error = TRUE]
        ELSE IF ~condition(id, s)
        THEN idle
        ELSE [rules |-> [rs EXCEPT ![id] = mark_triggered(@, def.cooldown_ms, t)],
              stats |-> [ec EXCEPT !.trigger_count = @ + 1],
              machine |-> execute_actions(m, t, id, def.actions, 1, faults),
              result |-> [RuleResult(id) EXCEPT !.triggered = TRUE,
                                                !.actions_executed = def.actions]]

\* evaluate_rule(rule) at time t, on the engine's rules rs and counters ec,
\* machine m and store st: what they become and the RuleResult
evaluate_rule(rs, ec, m, st, t, id, faults) ==
    LET def == RuleOf(id)
        s == get_signal_values(st)
        idle == [rules |-> rs, stats |-> ec, machine |-> m, result |-> RuleResult(id)]
    IN  IF ~rs[id].enabled
        THEN idle
        ELSE IF ~can_trigger(rs[id], def.cooldown_ms, t)
        THEN idle
        ELSE IF condition_raises(id, s)
        THEN [idle EXCEPT !.stats.error_count = @ + 1, !.result.error = TRUE]
        ELSE IF ~condition(id, s)
        THEN idle
        ELSE [rules |-> [rs EXCEPT ![id] = mark_triggered(@, def.cooldown_ms, t)],
              stats |-> [ec EXCEPT !.trigger_count = @ + 1],
              machine |-> execute_actions(m, t, id, def.actions, 1, faults),
              result |-> [RuleResult(id) EXCEPT !.triggered = TRUE,
                                                !.actions_executed = def.actions]]

\* an order that visits the lowest priority first
EvaluationOrder_lowest_first(byPriority, p) ==
    byPriority[4] \o byPriority[3] \o byPriority[2] \o byPriority[1] \o byPriority[0]

\* the rules in the order evaluate_all visits them: by priority, P0 first,
\* and by registration within a priority
RECURSIVE EvaluationOrder(_, _)
EvaluationOrder(byPriority, p) ==
    IF p > 4 THEN << >> ELSE byPriority[p] \o EvaluationOrder(byPriority, p + 1)

\* the loop of evaluate_all() from the i-th rule of order on; results are
\* those so far
RECURSIVE evaluate_each(_, _, _, _, _, _, _, _, _)
evaluate_each(rs, ec, m, st, t, order, i, results, faults) ==
    IF i > Len(order)
    THEN [rules |-> rs, stats |-> ec, machine |-> m, results |-> results]
    ELSE LET r == evaluate_rule(rs, ec, m, st, t, order[i], faults)
         IN  evaluate_each(r.rules, r.stats, r.machine, st, t, order, i + 1,
                           Append(results, r.result), faults)

\* evaluate_all() at time t
evaluate_all(rs, ec, m, st, t, byPriority, faults) ==
    evaluate_each(rs, [ec EXCEPT !.eval_count = @ + 1], m, st, t,
                  EvaluationOrder(byPriority, 0), 1, << >>, faults)

\* enable_rule(rule_id) and disable_rule(rule_id)
enable_rule(rs, id) == IF id \in DOMAIN rs THEN [rs EXCEPT ![id].enabled = TRUE] ELSE rs

disable_rule(rs, id) == IF id \in DOMAIN rs THEN [rs EXCEPT ![id].enabled = FALSE] ELSE rs

\* Rule(...): enabled, never triggered
NewRule == [enabled |-> TRUE, last_triggered |-> None, trigger_count |-> 0]

\* register_rules(rules) on the priority lists byPriority, from the i-th id on
RECURSIVE register_rules(_, _, _)
register_rules(byPriority, ids, i) ==
    IF i > Len(ids)
    THEN byPriority
    ELSE register_rules(
            [byPriority EXCEPT ![RuleOf(ids[i]).priority] =
                                    Append(@, ids[i])],
            ids, i + 1)

\* RuleEngine(): no rule
EngineInit ==
    /\ rules = << >>
    /\ rules_by_priority = [p \in RulePriority |-> << >>]
    /\ stats = [eval_count |-> 0, trigger_count |-> 0, error_count |-> 0]
    /\ lastResults = << >>

----------------------------------------------------------------------------
(* agents/decision_agent.py, agents/orchestrator_agent.py and the executors *)
(* of integration.py                                                        *)

\* thresholds that a score has to exceed
determine_action_above(score) ==
    IF score > 95 THEN [action |-> "ESTOP", urgency |-> "IMMEDIATE"]
    ELSE IF score > 80 THEN [action |-> "STOP", urgency |-> "IMMEDIATE"]
    ELSE IF score > 65 THEN [action |-> "SLOW_25", urgency |-> "HIGH"]
    ELSE IF score > 50 THEN [action |-> "SLOW_50", urgency |-> "HIGH"]
    ELSE IF score > 25 THEN [action |-> "ALERT", urgency |-> "NORMAL"]
    ELSE [action |-> "NONE", urgency |-> "LOW"]

\* DecisionAgent._determine_action(score), with the thresholds of
\* DecisionConfig; the names are those to_dict() sends
determine_action(score) ==
    IF score >= 95 THEN [action |-> "ESTOP", urgency |-> "IMMEDIATE"]
    ELSE IF score >= 80 THEN [action |-> "STOP", urgency |-> "IMMEDIATE"]
    ELSE IF score >= 65 THEN [action |-> "SLOW_25", urgency |-> "HIGH"]
    ELSE IF score >= 50 THEN [action |-> "SLOW_50", urgency |-> "HIGH"]
    ELSE IF score >= 25 THEN [action |-> "ALERT", urgency |-> "NORMAL"]
    ELSE [action |-> "NONE", urgency |-> "LOW"]

\* ActionType: the value of the member of that name
ActionType(action) ==
    CASE action = "NONE" -> 0
      [] action = "LOG" -> 1
      [] action = "ALERT" -> 2
      [] action = "SLOW_50" -> 3
      [] action = "SLOW_25" -> 4
      [] action = "STOP" -> 5
      [] action = "ESTOP" -> 6

\* DecisionConfig.auto_execute_enabled
auto_execute_enabled == TRUE

\* DecisionAgent._can_auto_execute(action)
can_auto_execute(action) ==
    IF ~auto_execute_enabled THEN FALSE ELSE ActionType(action) >= ActionType("SLOW_50")

\* no recommendation
NoRec ==
    [id |-> None, action |-> "NONE", urgency |-> "LOW", risk_score |-> 0,
     auto_execute |-> FALSE, received_at |-> None, state_at_receipt |-> NoState]

\* the payload _evaluate_and_recommend builds for a score, as
\* _handle_recommendation queues it at time t.  state_at_receipt is not a key
\* of the dict: it records the state the machine m was in at that time.
evaluate_and_recommend(id, score, m, t) ==
    [id |-> id, action |-> determine_action(score).action,
     urgency |-> determine_action(score).urgency, risk_score |-> score,
     auto_execute |-> can_auto_execute(determine_action(score).action),
     received_at |-> t, state_at_receipt |-> m.current]

\* the operator_rec of _handle_operator_command; the uuid of its id is not
\* modelled
operator_rec(command, m, t) ==
    [id |-> 0, action |-> command, urgency |-> "IMMEDIATE", risk_score |-> 100,
     auto_execute |-> TRUE, received_at |-> t, state_at_receipt |-> m.current]

\* urgency_order.get(urgency, 4)
urgency_order(urgency) ==
    CASE urgency = "IMMEDIATE" -> 0
      [] urgency = "HIGH" -> 1
      [] urgency = "NORMAL" -> 2
      [] urgency = "LOW" -> 3
      [] OTHER -> 4

\* a sort key that leaves the risk score out
sort_key_before_ignoring_risk(a, b) ==
    \/ urgency_order(a.urgency) < urgency_order(b.urgency)
    \/ /\ urgency_order(a.urgency) = urgency_order(b.urgency)
       /\ a.received_at < b.received_at

\* whether the sort key of a is before that of b: the key is the tuple
\* (urgency_order, -risk_score, received_at)
sort_key_before(a, b) ==
    \/ urgency_order(a.urgency) < urgency_order(b.urgency)
    \/ /\ urgency_order(a.urgency) = urgency_order(b.urgency)
       /\ \/ 0 - a.risk_score < 0 - b.risk_score
          \/ /\ a.risk_score = b.risk_score
             /\ a.received_at < b.received_at

\* x put into the sorted list xs after the elements whose key is not after
\* its own, from position i on
RECURSIVE InsertSorted(_, _, _)
InsertSorted(xs, x, i) ==
    IF i > Len(xs) THEN Append(xs, x)
    ELSE IF sort_key_before(x, xs[i])
         THEN SubSeq(xs, 1, i - 1) \o <<x>> \o SubSeq(xs, i, Len(xs))
         ELSE InsertSorted(xs, x, i + 1)

\* sorted(recs, key=...): Python's sort is stable
RECURSIVE sorted(_)
sorted(recs) ==
    IF recs = << >> THEN << >>
    ELSE InsertSorted(sorted(SubSeq(recs, 1, Len(recs) - 1)), recs[Len(recs)], 1)

\* _arbitrate_recommendations() on the pending list p: what it returns and
\* what the list becomes
arbitrate_recommendations(p) ==
    IF p = << >>
    THEN [selected |-> NoRec, pending |-> p]
    ELSE [selected |-> sorted(p)[1], pending |-> << >>]

\* ExecutionStatus
EXECUTING == "EXECUTING"
SUCCESS == "SUCCESS"
FAILED == "FAILED"
EXEC_TIMEOUT == "TIMEOUT"

\* OrchestratorConfig.action_timeout_s, in ms
action_timeout_ms == 5000

\* the actions that have an executor: those of _register_default_executors
\* and of _register_action_executors
ExecutorActions == {"LOG", "ALERT", "NONE", "ESTOP", "STOP", "SLOW_50", "SLOW_25"}

\* the executors that await something outside the process: the PLC driver's
\* send_command, the websocket broadcast
AwaitingExecutors == {"ESTOP", "STOP", "SLOW_50", "SLOW_25", "ALERT"}

\* what the executor of an action does to the state machine m at time t,
\* before it awaits anything else
executor(m, t, action) ==
    CASE action = "ESTOP" -> transition_to(m, t, ESTOP, "executor", "NONE", FALSE)
      [] action = "STOP" -> transition_to(m, t, STOP, "executor", "NONE", FALSE)
      [] action = "SLOW_50" -> transition_to(m, t, SLOW_50, "executor", "NONE", FALSE)
      [] action = "SLOW_25" -> transition_to(m, t, SLOW_25, "executor", "NONE", FALSE)
      [] OTHER -> m

\* OrchestratorAgent._max_audit_entries
max_audit_entries == 10000

\* the entry _log_audit builds; of the details, the action and the status
AuditEntry(event_type, action, status) ==
    [event_type |-> event_type, action |-> action, status |-> status]

\* _log_audit(event_type, ...) on the audit log: appends, keeps the last
\* _max_audit_entries
log_audit(log, entry) ==
    LET l == Append(log, entry)
    IN  IF Len(l) > max_audit_entries
        THEN SubSeq(l, Len(l) - max_audit_entries + 1, Len(l))
        ELSE l

\* _log_audit of each entry of entries, in order
RECURSIVE log_audit_each(_, _, _)
log_audit_each(log, entries, i) ==
    IF i > Len(entries)
    THEN log
    ELSE log_audit_each(log_audit(log, entries[i]), entries, i + 1)

\* OrchestratorAgent._execute_action(recommendation) at time t, on machine m
\* and executions ex.  hangs tells whether what the executor awaits never
\* completes: the coroutine then stays suspended in `await executor(...)`.
\* The executor registered for NONE is not a coroutine function: awaiting
\* what it returns raises, which the handler records as FAILED.  audit is
\* what the call passes to _log_audit: one action_executed entry, once the
\* executor has returned.
orchestrator_execute_action(m, ex, rec, t, hangs) ==
    LET record == [recommendation_id |-> rec.id, action |-> rec.action,
                   status |-> EXECUTING, started_at |-> t, completed_at |-> None]
        done(status) == [record EXCEPT !.status = status, !.completed_at = t]
        executed(status) == <<AuditEntry("action_executed", rec.action, status)>>
    IN  IF rec.action \notin ExecutorActions
        THEN [machine |-> m, executions |-> Append(ex, done(SUCCESS)),
              suspended |-> FALSE, audit |-> executed(SUCCESS)]
        ELSE IF rec.action = "NONE"
        THEN [machine |-> m, executions |-> Append(ex, done(FAILED)),
              suspended |-> FALSE, audit |-> executed(FAILED)]
        ELSE IF hangs /\ rec.action \in AwaitingExecutors
        THEN [machine |-> executor(m, t, rec.action),
              executions |-> Append(ex, record), suspended |-> TRUE, audit |-> << >>]
        ELSE [machine |-> executor(m, t, rec.action),
              executions |-> Append(ex, done(SUCCESS)),
              suspended |-> FALSE, audit |-> executed(SUCCESS)]

\* the execution_timeout entries _check_active_executions() logs at time t
RECURSIVE execution_timeouts(_, _, _)
execution_timeouts(ex, t, i) ==
    IF i > Len(ex)
    THEN << >>
    ELSE (IF ex[i].status = EXECUTING /\ t - ex[i].started_at > action_timeout_ms
          THEN <<AuditEntry("execution_timeout", ex[i].action, EXEC_TIMEOUT)>>
          ELSE << >>) \o execution_timeouts(ex, t, i + 1)

\* _check_active_executions() at time t: the sweep, then the removal of the
\* executions completed more than five minutes ago
check_active_executions(ex, t) ==
    LET swept == [i \in DOMAIN ex |->
                    IF ex[i].status = EXECUTING /\ t - ex[i].started_at > action_timeout_ms
                    THEN [ex[i] EXCEPT !.status = EXEC_TIMEOUT, !.completed_at = t]
                    ELSE ex[i]]
    IN  SelectSeq(swept, LAMBDA r : r.completed_at = None
                                      \/ r.completed_at > t - 5 * 60 * 1000)

\* OrchestratorAgent.cycle() at time t
cycle(m, p, ex, t, hangs) ==
    LET a == arbitrate_recommendations(p)
        e == orchestrator_execute_action(m, ex, a.selected, t, hangs)
    IN  IF p = << >>
        THEN [machine |-> m, pending |-> p, executions |-> check_active_executions(ex, t),
              suspended |-> FALSE, executed |-> NoRec,
              audit |-> execution_timeouts(ex, t, 1)]
        ELSE IF e.suspended
        THEN [machine |-> e.machine, pending |-> a.pending, executions |-> e.executions,
              suspended |-> TRUE, executed |-> a.selected, audit |-> << >>]
        ELSE [machine |-> e.machine, pending |-> a.pending,
              executions |-> check_active_executions(e.executions, t),
              suspended |-> FALSE, executed |-> a.selected,
              audit |-> e.audit \o execution_timeouts(e.executions, t, 1)]

\* AgentMessage.ttl_seconds, in ms
ttl_ms == 10000

\* max_per_cycle of _process_inbox
max_per_cycle == 10

\* an AgentMessage created at time t: its type, its payload (a recommendation,
\* or NoRec for the types without one) and its timestamp
AgentMessage(type, payload, t) ==
    [type |-> type, payload |-> payload, timestamp |-> t, ttl |-> ttl_ms]

\* is_expired that never tells a message expired
is_expired_never(message, t) == FALSE

\* AgentMessage.is_expired at time t
is_expired(message, t) == t - message.timestamp > message.ttl

\* receive that puts the message in the inbox whatever its size
receive_unbounded(q, mt, message) ==
    [inbox |-> Append(q, message), metrics |-> mt, ret |-> TRUE]

\* BaseAgent.receive(message) on the inbox q and the metrics mt: put_nowait
\* raises QueueFull when the queue, of maxsize max_queue_size > 0, holds
\* maxsize messages
receive(q, mt, message) ==
    IF max_queue_size > 0 /\ Len(q) >= max_queue_size
    THEN [inbox |-> q, metrics |-> [mt EXCEPT !.messages_dropped = @ + 1], ret |-> FALSE]
    ELSE [inbox |-> Append(q, message), metrics |-> mt, ret |-> TRUE]

\* OrchestratorAgent.handle_message(message) at time t, for the types whose
\* handler does not execute anything: _handle_recommendation queues the
\* payload in the pending list p with its time of receipt; a type without
\* handler is ignored
handle_message(p, message, t) ==
    IF message.type = "action_recommendation"
    THEN Append(p, [message.payload EXCEPT !.received_at = t])
    ELSE p

\* BaseAgent._process_inbox() at time t, processed messages having been
\* handled so far: the inbox, the pending list and the metrics after it, and
\* the messages it passed to handle_message
RECURSIVE process_inbox(_, _, _, _, _, _)
process_inbox(q, p, mt, t, processed, handled) ==
    IF q = << >> \/ processed >= max_per_cycle
    THEN [inbox |-> q, pending |-> p, metrics |-> mt, handled |-> handled]
    ELSE IF is_expired(Head(q), t)
    THEN process_inbox(Tail(q), p, [mt EXCEPT !.messages_dropped = @ + 1], t,
                       processed, handled)
    ELSE process_inbox(Tail(q), handle_message(p, Head(q), t),
                       [mt EXCEPT !.messages_received = @ + 1], t,
                       processed + 1, Append(handled, Head(q)))

\* AgentState
RUNNING == "RUNNING"
PAUSED == "PAUSED"
STOPPED == "STOPPED"

\* the agent as a record: _state, _running and _task
Agent == [state |-> agent_state, running |-> running, task |-> loop_task]

\* BaseAgent.start(): nothing if _running; else the flags are set and the
\* _main_loop task is created.  started tells whether on_start was called.
start(a) ==
    IF a.running
    THEN [agent |-> a, started |-> FALSE]
    ELSE [agent |-> [state |-> RUNNING, running |-> TRUE, task |-> "active"],
          started |-> TRUE]

\* BaseAgent.stop(): the flags are cleared, the task, if any, is cancelled;
\* on_stop is always called
stop(a) ==
    [state |-> STOPPED, running |-> FALSE,
     task |-> IF a.task = "none" THEN "none" ELSE "cancelled"]

\* BaseAgent.pause()
pause(a) == [a EXCEPT !.state = PAUSED]

\* BaseAgent.resume()
resume(a) == IF a.state = PAUSED THEN [a EXCEPT !.state = RUNNING] ELSE a

\* the agent's variables become the record a
SetAgent(a) ==
    /\ agent_state' = a.state
    /\ running' = a.running
    /\ loop_task' = a.task

\* RiskLevel (IntEnum): NONE, LOW, MEDIUM, HIGH, CRITICAL are 0 to 4
RiskLevel == 0 .. 4

\* the categories in the order AnalysisAgent.cycle stores their scores in
\* _risk_scores, which is the order the dict is iterated in
CategoryOrder == <<"distance", "collision", "exposure", "equipment">>

\* weights.get(category, 0.1) of _calculate_global_risk, in hundredths
weights(category) ==
    CASE category = "collision" -> 35
      [] category = "distance" -> 30
      [] category = "exposure" -> 20
      [] category = "equipment" -> 15
      [] OTHER -> 10

\* the loop of _calculate_global_risk over the categories of scores, from
\* the i-th of CategoryOrder on: the sums and the maximum so far
RECURSIVE global_risk_loop(_, _, _, _, _)
global_risk_loop(scores, i, weighted_score, total_weight, max_level) ==
    IF i > Len(CategoryOrder)
    THEN [weighted_score |-> weighted_score, total_weight |-> total_weight,
          max_level |-> max_level]
    ELSE IF CategoryOrder[i] \notin DOMAIN scores
    THEN global_risk_loop(scores, i + 1, weighted_score, total_weight, max_level)
    ELSE LET risk == scores[CategoryOrder[i]]
         IN  global_risk_loop(scores, i + 1,
                              weighted_score + risk.score * weights(CategoryOrder[i]),
                              total_weight + weights(CategoryOrder[i]),
                              IF risk.level > max_level THEN risk.level ELSE max_level)

\* the level of a score on the scale the category risks use (25 per level)
level_of_score(score) ==
    IF score >= 100 THEN 4 ELSE IF score >= 75 THEN 3 ELSE IF score >= 50 THEN 2
    ELSE IF score >= 25 THEN 1 ELSE 0

\* a global risk whose level is that of its weighted score
calculate_global_risk_level_of_score(scores) ==
    LET l == global_risk_loop(scores, 1, 0, 0, 0)
    IN  IF DOMAIN scores = {}
        THEN [level |-> 0, score |-> 0, confidence |-> 0]
        ELSE [level |-> level_of_score(l.weighted_score \div l.total_weight),
              score |-> l.weighted_score \div l.total_weight,
              confidence |-> 85]

\* AnalysisAgent._calculate_global_risk() on _risk_scores = scores.  Scores
\* are integers here and the weighted mean is rounded down; confidences are
\* in hundredths.
calculate_global_risk(scores) ==
    LET l == global_risk_loop(scores, 1, 0, 0, 0)
    IN  IF DOMAIN scores = {}
        THEN [level |-> 0, score |-> 0, confidence |-> 0]
        ELSE [level |-> l.max_level,
              score |-> IF l.total_weight > 0
                        THEN l.weighted_score \div l.total_weight ELSE 0,
              confidence |-> 85]

\* the payload of the risk_update message AnalysisAgent.cycle sends
risk_update_payload(scores) ==
    [global_risk |-> calculate_global_risk(scores), category_risks |-> scores]

\* no risk_update yet: the dicts of DecisionAgent() are empty
NoRisk == [global_risk |-> << >>, category_risks |-> << >>]

\* DecisionConfig.min_confidence, in hundredths
min_confidence == 70

\* DecisionAgent._find_dominant_risk() on _current_risks = risks, from the
\* i-th category on
RECURSIVE find_dominant_risk(_, _, _, _)
find_dominant_risk(risks, i, max_score, dominant) ==
    IF i > Len(CategoryOrder)
    THEN dominant
    ELSE IF CategoryOrder[i] \in DOMAIN risks /\ risks[CategoryOrder[i]].score > max_score
    THEN find_dominant_risk(risks, i + 1, risks[CategoryOrder[i]].score, CategoryOrder[i])
    ELSE find_dominant_risk(risks, i + 1, max_score, dominant)

\* the key of _check_cooldown, f"{action.name}_{risk_category}": the pair
cooldown_key(action, risk_category) == <<action, risk_category>>

\* DecisionConfig.action_cooldown_s, in ms
action_cooldown_ms == 2000

\* a cooldown that a suppressed recommendation restarts
check_cooldown_restarting(hist, key, t) ==
    IF key \in DOMAIN hist /\ t - hist[key] < action_cooldown_ms
    THEN [ok |-> FALSE, history |-> SetKey(hist, key, t)]
    ELSE [ok |-> TRUE, history |-> SetKey(hist, key, t)]

\* DecisionAgent._check_cooldown(recommendation) at time t
check_cooldown(hist, key, t) ==
    IF key \in DOMAIN hist /\ t - hist[key] < action_cooldown_ms
    THEN [ok |-> FALSE, history |-> hist]
    ELSE [ok |-> TRUE, history |-> SetKey(hist, key, t)]

\* DecisionAgent.cycle() at time t, on the risks r, the history hist and the
\* counter id: what the history and the counter become and the
\* recommendations sent (none or one)
decision_cycle(r, hist, id, t) ==
    LET g == r.global_risk
        a == determine_action(g.score)
        dominant == find_dominant_risk(r.category_risks, 1, 0, "unknown")
        c == check_cooldown(hist, cooldown_key(a.action, dominant), t)
        idle == [action_history |-> hist, action_id |-> id, sent |-> << >>]
    IN  IF g = << >>
        THEN idle
        ELSE IF g.confidence < min_confidence
        THEN idle
        ELSE IF a.action = "NONE"
        THEN idle
        ELSE [action_history |-> c.history, action_id |-> id + 1,
              sent |-> IF c.ok
                       THEN <<[id |-> id + 1, action |-> a.action,
                               urgency |-> a.urgency, risk_category |-> dominant,
                               risk_score |-> g.score,
                               auto_execute |-> can_auto_execute(a.action),
                               timestamp |-> t]>>
                       ELSE << >>]

\* AnalysisAgent() and DecisionAgent(): no score, no risk, no history
RiskInit ==
    /\ risk_scores = << >>
    /\ risk_update = NoRisk
    /\ decision_risk = NoRisk
    /\ action_history = << >>
    /\ sent = << >>

\* BaseAgent() then start(): the inbox is empty, the metrics are zero, the
\* loop runs
AgentInit ==
    /\ inbox = << >>
    /\ metrics = [messages_received |-> 0, messages_dropped |-> 0, cycles_executed |-> 0]
    /\ lastHandled = << >>
    /\ agent_state = RUNNING
    /\ running = TRUE
    /\ loop_task = "active"
    /\ RiskInit

\* DecisionAgent(), and OrchestratorAgent() started: on_start has logged
\* system_start
OrchInit ==
    /\ action_id = 0
    /\ pending = << >>
    /\ executions = << >>
    /\ in_executor = FALSE
    /\ lastExecuted = NoRec
    /\ audit_log = <<AuditEntry("system_start", "", "")>>
    /\ AgentInit

----------------------------------------------------------------------------
(* The state machine alone, driven through its public methods *)

Tick ==
    /\ now < MaxTicks * TickMs
    /\ now' = now + TickMs
    /\ UNCHANGED <<orchVars, smVars, storeVars, engineVars>>

\* a direct, non-forced call (main.py start, the executors of integration.py)
CallTransitionTo ==
    \E target \in SafetyState :
        /\ SetMachine(transition_to(Machine, now, target, "transition_to", "NONE", FALSE))
        /\ UNCHANGED <<orchVars, now, storeVars, engineVars>>

CallRequestEstop == SetMachine(request_estop(Machine, now, "NONE")) /\ UNCHANGED <<orchVars, now, storeVars, engineVars>>

CallRequestStop == SetMachine(request_stop(Machine, now, "NONE")) /\ UNCHANGED <<orchVars, now, storeVars, engineVars>>

CallRequestSlow ==
    \E p \in {25, 50} :
        SetMachine(request_slow(Machine, now, p, "NONE")) /\ UNCHANGED <<orchVars, now, storeVars, engineVars>>

CallRequestRecovery == SetMachine(request_recovery(Machine, now)) /\ UNCHANGED <<orchVars, now, storeVars, engineVars>>

CallRequestNormal == SetMachine(request_normal(Machine, now)) /\ UNCHANGED <<orchVars, now, storeVars, engineVars>>

CallEnterFallback == SetMachine(enter_fallback(Machine, now)) /\ UNCHANGED <<orchVars, now, storeVars, engineVars>>

Init ==
    /\ now = 0
    /\ SMInit
    /\ StoreInit
    /\ EngineInit
    /\ OrchInit

Next ==
    \/ Tick
    \/ CallTransitionTo
    \/ CallRequestEstop
    \/ CallRequestStop
    \/ CallRequestSlow
    \/ CallRequestRecovery
    \/ CallRequestNormal
    \/ CallEnterFallback

Spec == Init /\ [][Next]_vars

----------------------------------------------------------------------------
(* The signal store alone: registration, updates and the watchdog *)

\* the ids the store is exercised on; door_status has no definition
StoreIds == {"plc_heartbeat", "estop_status"}
UpdateIds == StoreIds \cup {"door_status"}

\* the values a caller writes
UpdateValues == {0, 1, 255}

\* the timestamp argument: None, or an explicit time
Timestamps == {None} \cup {k * TickMs : k \in 0 .. MaxTicks}

StoreTick ==
    /\ now < MaxTicks * TickMs
    /\ now' = now + TickMs
    /\ UNCHANGED <<orchVars, smVars, storeVars, engineVars>>

RegisterSignal ==
    \E id \in StoreIds :
        /\ SetStore(register_signal(Store, id, get_welding_cell_signals(id), now))
        /\ UNCHANGED <<orchVars, now, smVars, engineVars, notifyVars>>

UpdateSignal ==
    \E id \in UpdateIds, value \in UpdateValues, quality \in SignalQuality,
       timestamp \in Timestamps :
        /\ timestamp <= now
        /\ SetStore(update_signal(Store, id, value, quality, timestamp, now).store)
        /\ UNCHANGED <<orchVars, now, smVars, engineVars, notifyVars>>

UpdateSignalsBatch ==
    \E ids \in SUBSET UpdateIds, value \in UpdateValues, quality \in SignalQuality :
        /\ Cardinality(ids) >= 2
        /\ SetStore(update_signals_batch(Store, [id \in ids |-> value], ids,
                                         quality, now).store)
        /\ UNCHANGED <<orchVars, now, smVars, engineVars, notifyVars>>

CheckTimeouts ==
    /\ SetStore(check_timeouts(Store, now))
    /\ UNCHANGED <<orchVars, now, smVars, engineVars, notifyVars>>

StoreNext ==
    \/ StoreTick
    \/ RegisterSignal
    \/ UpdateSignal
    \/ UpdateSignalsBatch
    \/ CheckTimeouts

SpecStore == Init /\ [][StoreNext]_vars

----------------------------------------------------------------------------
(* The store with subscribers: concurrent update_signal calls on one       *)
(* signal, each writing under the lock and notifying outside it            *)

\* the signal written: the heartbeat counter, each write one more than the
\* value stored
NotifyId == "plc_heartbeat"

\* plc_heartbeat registered at time 0
NotifySpecInit ==
    /\ SMInit
    /\ now = 0
    /\ definitions = [id \in {NotifyId} |-> get_welding_cell_signals(id)]
    /\ signals = [id \in {NotifyId} |->
                    register_signal([definitions |-> << >>, signals |-> << >>],
                                    id, get_welding_cell_signals(id), 0).signals[id]]
    /\ NotifyInit
    /\ EngineInit
    /\ OrchInit

\* the callbacks subscribed, to the id or to all
Subscribed ==
    {Get(subscribers, NotifyId, << >>)[i] : i \in DOMAIN Get(subscribers, NotifyId, << >>)}
        \cup {global_subscribers[i] : i \in DOMAIN global_subscribers}

\* subscribe(NotifyId, callback), of a callback not yet subscribed
Subscribe ==
    \E callback \in Callbacks \ Subscribed :
        /\ Cardinality(Subscribed) < MaxSubscribers
        /\ subscribers' = subscribe(subscribers, NotifyId, callback)
        /\ UNCHANGED <<now, smVars, engineVars, orchVars, definitions, signals,
                       global_subscribers, notifying, received>>

\* subscribe_all(callback), of a callback not yet subscribed
SubscribeAll ==
    \E callback \in Callbacks \ Subscribed :
        /\ Cardinality(Subscribed) < MaxSubscribers
        /\ global_subscribers' = subscribe_all(global_subscribers, callback)
        /\ UNCHANGED <<now, smVars, engineVars, orchVars, definitions, signals,
                       subscribers, notifying, received>>

\* a task calls update_signal(NotifyId, value): the write under the lock, then
\* _notify_subscribers up to its end or to the first callback that suspends
NotifyUpdate ==
    \E k \in 0 .. MaxSubscribers :
        LET value == signals[NotifyId].value + 1
            u == update_signal(Store, NotifyId, value, GOOD, None, now)
            n == notify_subscribers(subscribers, global_subscribers, received,
                                    [id |-> NotifyId, value |-> value], 1, 1, k)
        IN  /\ value <= MaxWrites
            /\ SetStore(u.store)
            /\ received' = n.received
            /\ notifying' = notifying \o n.parked
            /\ UNCHANGED <<now, smVars, engineVars, orchVars, subscribers,
                           global_subscribers>>

\* the callback a _notify_subscribers coroutine is suspended in returns: the
\* coroutine goes on from the next callback
NotifyResume ==
    \E j \in DOMAIN notifying, k \in 0 .. MaxSubscribers :
        LET c == notifying[j]
            n == notify_subscribers(subscribers, global_subscribers, received,
                                    c.signal, c.loop, c.i + 1, k)
        IN  /\ received' = n.received
            /\ notifying' = SubSeq(notifying, 1, j - 1)
                                \o SubSeq(notifying, j + 1, Len(notifying)) \o n.parked
            /\ UNCHANGED <<now, smVars, engineVars, orchVars, definitions, signals,
                           subscribers, global_subscribers>>

NotifyNext ==
    \/ Subscribe
    \/ SubscribeAll
    \/ NotifyUpdate
    \/ NotifyResume

SpecNotify == NotifySpecInit /\ [][NotifyNext]_vars

----------------------------------------------------------------------------
(* The welding cell of main.py: signals and rules registered, the watchdog *)
(* and the evaluation loop running, drivers pushing snapshots; no operator *)
(* acts on the state machine                                               *)

\* what the drivers push besides the heartbeat: one snapshot of every other
\* signal per situation
Quiet ==
    [fanuc_tcp_speed |-> 250, fanuc_mode |-> "AUTO", fanuc_servo_on |-> 1,
     scanner_zone_status |-> 0, scanner_min_distance |-> 3000, estop_status |-> 0,
     arc_on |-> 1, weld_current |-> 150, fumes_concentration |-> 2,
     fumes_vlep_ratio |-> 5, vision_presence |-> 0, vision_min_distance |-> 5000,
     vision_confidence |-> 1, robosafe_risk_score |-> 10]

\* quiet, a presence in the scanner's WARN zone, fumes above 120% of the limit
Snapshots ==
    {Quiet,
     [Quiet EXCEPT !.scanner_zone_status = 2],
     [Quiet EXCEPT !.fumes_vlep_ratio = 13]}

\* the heartbeat counter's values; None is a failed read
HeartbeatValues == {1, None}

\* the state after RoboSafeSentinel.setup() and start(), all at time 0
CellInit ==
    LET m0 == [current |-> INIT, previous |-> NoState, history |-> << >>,
               entered_at |-> 0, call |-> NoCall]
        m1 == transition_to(m0, 0, NORMAL, "transition_to", "NONE", FALSE)
        st == [definitions |-> [id \in WeldingSignalIds |-> get_welding_cell_signals(id)],
               signals |-> [id \in WeldingSignalIds |->
                              register_signal([definitions |-> << >>, signals |-> << >>],
                                              id, get_welding_cell_signals(id), 0).signals[id]]]
    IN  /\ now = 0
        /\ current_state = m1.current
        /\ previous_state = m1.previous
        /\ history = m1.history
        /\ state_entered_at = m1.entered_at
        /\ lastCall = m1.call
        /\ definitions = st.definitions
        /\ signals = st.signals
        /\ NotifyInit
        /\ rules = [i \in {WeldingRuleIds[k] : k \in DOMAIN WeldingRuleIds} |-> NewRule]
        /\ stats = [eval_count |-> 0, trigger_count |-> 0, error_count |-> 0]
        /\ rules_by_priority =
              register_rules([p \in RulePriority |-> << >>], WeldingRuleIds, 1)
        /\ lastResults = << >>
        /\ OrchInit

CellTick ==
    /\ now < MaxTicks * TickMs
    /\ now' = now + TickMs
    /\ UNCHANGED <<orchVars, smVars, storeVars, engineVars>>

\* a driver cycle: update_signals_batch of one snapshot
DriverPush ==
    \E snap \in Snapshots :
        /\ SetStore(update_signals_batch(Store, snap, DOMAIN snap, GOOD, now).store)
        /\ UNCHANGED <<orchVars, now, smVars, engineVars, notifyVars>>

\* the PLC driver's heartbeat
HeartbeatPush ==
    \E v \in HeartbeatValues :
        /\ SetStore(update_signal(Store, "plc_heartbeat", v, GOOD, None, now).store)
        /\ UNCHANGED <<orchVars, now, smVars, engineVars, notifyVars>>

\* one turn of _watchdog_loop
Watchdog ==
    /\ SetStore(check_timeouts(Store, now))
    /\ UNCHANGED <<orchVars, now, smVars, engineVars, notifyVars>>

\* one turn of _evaluation_loop
EvaluateAll ==
    LET r == evaluate_all(rules, stats, Machine, Store, now, rules_by_priority, {})
    IN  /\ stats.eval_count < MaxEvals
        /\ SetMachine(r.machine)
        /\ rules' = r.rules
        /\ stats' = r.stats
        /\ lastResults' = r.results
        /\ UNCHANGED <<orchVars, now, storeVars, rules_by_priority>>

CellNext ==
    \/ CellTick
    \/ DriverPush
    \/ HeartbeatPush
    \/ Watchdog
    \/ EvaluateAll

SpecCell == CellInit /\ [][CellNext]_vars

----------------------------------------------------------------------------
(* The loop of integration.py with its distance rules: each turn collects  *)
(* the scanner's distance, writes it to the store, evaluates the rules and *)
(* applies the actions of the triggered ones                               *)

\* the distances the scanner measures, in mm
Distances == {2500, 1500, 1000, 700, 450}

\* the sleep that ends a turn of the loop, in ms
loop_sleep_ms == 50

\* the state machine in NORMAL, the rules of _setup_safety_rules registered;
\* RoboSafeSentinel registers no signal
SentinelInit ==
    LET m0 == [current |-> INIT, previous |-> NoState, history |-> << >>,
               entered_at |-> 0, call |-> NoCall]
        m1 == transition_to(m0, 0, NORMAL, "transition_to", "NONE", FALSE)
    IN  /\ now = 0
        /\ current_state = m1.current
        /\ previous_state = m1.previous
        /\ history = m1.history
        /\ state_entered_at = m1.entered_at
        /\ lastCall = m1.call
        /\ StoreInit
        /\ rules = [i \in {SafetyRuleIds[k] : k \in DOMAIN SafetyRuleIds} |-> NewRule]
        /\ stats = [eval_count |-> 0, trigger_count |-> 0, error_count |-> 0]
        /\ rules_by_priority =
              register_rules([p \in RulePriority |-> << >>], SafetyRuleIds, 1)
        /\ lastResults = << >>
        /\ OrchInit

\* a caller of the SignalManager registers scanner_min_distance with its
\* welding-cell definition
RegisterScanner ==
    /\ "scanner_min_distance" \notin DOMAIN definitions
    /\ SetStore(register_signal(Store, "scanner_min_distance",
                                get_welding_cell_signals("scanner_min_distance"), now))
    /\ UNCHANGED <<orchVars, now, smVars, engineVars, notifyVars>>

\* action_type of step 3 of _main_loop, for an element of
\* RuleResult.actions_executed: the element is the action_type the rule was
\* built with (a string or a member of ActionType), neither a dict nor an
\* object with an attribute action_type, so getattr returns its default
action_type(action) == ""

\* step 3 of _main_loop on the results of evaluate_all, at time t, from the
\* j-th action of the i-th result on
RECURSIVE apply_rule_actions(_, _, _, _, _)
apply_rule_actions(m, t, results, i, j) ==
    IF i > Len(results)
    THEN m
    ELSE IF ~results[i].triggered \/ j > Len(results[i].actions_executed)
    THEN apply_rule_actions(m, t, results, i + 1, 1)
    ELSE LET a == action_type(results[i].actions_executed[j])
             m2 == IF a = "ESTOP"
                   THEN transition_to(m, t, ESTOP, "transition_to", "NONE", FALSE)
                   ELSE IF a = "STOP"
                   THEN transition_to(m, t, STOP, "transition_to", "NONE", FALSE)
                   ELSE m
         IN  apply_rule_actions(m2, t, results, i, j + 1)

\* one turn of RoboSafeSentinel._main_loop with the scanner measuring d:
\* update_signal, evaluate_all, the actions of the results, the sleep
LoopTurn(d) ==
    LET u == update_signal(Store, "scanner_min_distance", d, GOOD, None, now)
        r == evaluate_all(rules, stats, Machine, u.store, now, rules_by_priority, {})
    IN  /\ stats.eval_count < MaxTurns
        /\ SetStore(u.store)
        /\ SetMachine(apply_rule_actions(r.machine, now, r.results, 1, 1))
        /\ rules' = r.rules
        /\ stats' = r.stats
        /\ lastResults' = r.results
        /\ now' = now + loop_sleep_ms
        /\ UNCHANGED <<orchVars, notifyVars, rules_by_priority>>

SentinelLoopTurn == \E d \in Distances : LoopTurn(d)

SentinelNext ==
    \/ RegisterScanner
    \/ SentinelLoopTurn

SpecSentinel == SentinelInit /\ [][SentinelNext]_vars

----------------------------------------------------------------------------
(* The rule engine on a store without watchdog: some welding-cell rules,  *)
(* evaluated while signals are pushed and rules are enabled and disabled  *)

\* the signals and the rules registered
EngineSignalIds == {"estop_status", "scanner_zone_status", "fumes_vlep_ratio"}
EngineRuleIds == <<"RS-001", "RS-013", "RS-020", "RS-023">>

\* the rule that is disabled and enabled, and evaluated on its own
ToggleIds == {"RS-013"}

\* what is pushed: nothing to report; with a presence in the scanner's WARN
\* zone, a fumes ratio above 100%, above 120%, or a failed read of it; the
\* emergency stop pressed on top
Calm == [estop_status |-> 0, scanner_zone_status |-> 0, fumes_vlep_ratio |-> 5]

EngineSnapshots ==
    {Calm,
     [Calm EXCEPT !.scanner_zone_status = 2, !.fumes_vlep_ratio = 11],
     [Calm EXCEPT !.scanner_zone_status = 2, !.fumes_vlep_ratio = 13],
     [Calm EXCEPT !.scanner_zone_status = 2, !.fumes_vlep_ratio = None],
     [Calm EXCEPT !.estop_status = 1, !.scanner_zone_status = 2,
                  !.fumes_vlep_ratio = 13]}

\* the calls on the state machine that raise during a cycle: none, or the
\* request_stop of RS-013
FaultSets == {{}, {<<"RS-013", 1>>}}

\* signals and rules registered, the state machine started, all at time 0
EngineSpecInit ==
    LET m0 == [current |-> INIT, previous |-> NoState, history |-> << >>,
               entered_at |-> 0, call |-> NoCall]
        m1 == transition_to(m0, 0, NORMAL, "transition_to", "NONE", FALSE)
    IN  /\ now = 0
        /\ current_state = m1.current
        /\ previous_state = m1.previous
        /\ history = m1.history
        /\ state_entered_at = m1.entered_at
        /\ lastCall = m1.call
        /\ definitions = [id \in EngineSignalIds |-> get_welding_cell_signals(id)]
        /\ signals = [id \in EngineSignalIds |->
                        register_signal([definitions |-> << >>, signals |-> << >>],
                                        id, get_welding_cell_signals(id), 0).signals[id]]
        /\ NotifyInit
        /\ rules = [i \in {EngineRuleIds[k] : k \in DOMAIN EngineRuleIds} |-> NewRule]
        /\ rules_by_priority =
              register_rules([p \in RulePriority |-> << >>], EngineRuleIds, 1)
        /\ stats = [eval_count |-> 0, trigger_count |-> 0, error_count |-> 0]
        /\ lastResults = << >>
        /\ OrchInit

EngineTick ==
    /\ now < MaxEngineTicks * EngineTickMs
    /\ now' = now + EngineTickMs
    /\ UNCHANGED <<orchVars, smVars, storeVars, engineVars>>

\* a driver cycle: update_signals_batch of one snapshot
EnginePush ==
    \E snap \in EngineSnapshots :
        /\ SetStore(update_signals_batch(Store, snap, DOMAIN snap, GOOD, now).store)
        /\ UNCHANGED <<orchVars, now, smVars, engineVars, notifyVars>>

\* evaluate_all()
EngineEvaluateAll ==
    \E faults \in FaultSets :
        LET r == evaluate_all(rules, stats, Machine, Store, now, rules_by_priority, faults)
        IN  /\ stats.eval_count < MaxEvals
            /\ SetMachine(r.machine)
            /\ rules' = r.rules
            /\ stats' = r.stats
            /\ lastResults' = r.results
            /\ UNCHANGED <<orchVars, now, storeVars, rules_by_priority>>

\* evaluate_rule(rule), called directly
EngineEvaluateRule ==
    \E id \in ToggleIds :
        LET r == evaluate_rule(rules, stats, Machine, Store, now, id, {})
        IN  /\ rules[id].trigger_count < MaxEvals
            /\ stats.error_count < MaxEvals
            /\ SetMachine(r.machine)
            /\ rules' = r.rules
            /\ stats' = r.stats
            /\ UNCHANGED <<orchVars, now, storeVars, rules_by_priority, lastResults>>

EnableRule ==
    \E id \in ToggleIds :
        /\ rules' = enable_rule(rules, id)
        /\ UNCHANGED <<orchVars, now, smVars, storeVars, rules_by_priority, stats, lastResults>>

DisableRule ==
    \E id \in ToggleIds :
        /\ rules' = disable_rule(rules, id)
        /\ UNCHANGED <<orchVars, now, smVars, storeVars, rules_by_priority, stats, lastResults>>

EngineNext ==
    \/ EngineTick
    \/ EnginePush
    \/ EngineEvaluateAll
    \/ EngineEvaluateRule
    \/ EnableRule
    \/ DisableRule

SpecEngine == EngineSpecInit /\ [][EngineNext]_vars

----------------------------------------------------------------------------
(* The rule engine's registry: rules are registered one at a time, in any  *)
(* order, a Rule object possibly more than once, while signals are pushed  *)
(* and the rules are evaluated                                             *)

\* the rules that may be registered: one P0, one P1, two P2
RegistryRuleIds == {"RS-001", "RS-010", "RS-020", "RS-023"}

\* what is pushed: a presence in the scanner's WARN zone with a fumes ratio
\* above 100%; the emergency stop pressed and a presence in the PROTECT
\* zone on top
RegistrySnapshots ==
    {[Calm EXCEPT !.scanner_zone_status = 2, !.fumes_vlep_ratio = 11],
     [Calm EXCEPT !.estop_status = 1, !.scanner_zone_status = 6,
                  !.fumes_vlep_ratio = 11]}

\* the signals registered, no rule, the state machine started
RegistryInit ==
    LET m0 == [current |-> INIT, previous |-> NoState, history |-> << >>,
               entered_at |-> 0, call |-> NoCall]
        m1 == transition_to(m0, 0, NORMAL, "transition_to", "NONE", FALSE)
    IN  /\ now = 0
        /\ current_state = m1.current
        /\ previous_state = m1.previous
        /\ history = m1.history
        /\ state_entered_at = m1.entered_at
        /\ lastCall = m1.call
        /\ definitions = [id \in EngineSignalIds |-> get_welding_cell_signals(id)]
        /\ signals = [id \in EngineSignalIds |->
                        register_signal([definitions |-> << >>, signals |-> << >>],
                                        id, get_welding_cell_signals(id), 0).signals[id]]
        /\ NotifyInit
        /\ EngineInit
        /\ OrchInit

\* the number of entries of the priority lists
RECURSIVE Registered(_, _)
Registered(byPriority, p) ==
    IF p = 0
    THEN Len(byPriority[0])
    ELSE Len(byPriority[p]) + Registered(byPriority, p - 1)

\* register_rule(rule), rule being the Rule object of the id: a new one the
\* first time, the one already registered after that
RegisterRule ==
    \E id \in RegistryRuleIds :
        /\ Registered(rules_by_priority, 4) < MaxRegistered
        /\ rules' = IF id \in DOMAIN rules THEN rules ELSE SetKey(rules, id, NewRule)
        /\ rules_by_priority' = register_rules(rules_by_priority, <<id>>, 1)
        /\ UNCHANGED <<orchVars, now, smVars, storeVars, stats, lastResults>>

\* a driver cycle: update_signals_batch of one snapshot
RegistryPush ==
    \E snap \in RegistrySnapshots :
        /\ SetStore(update_signals_batch(Store, snap, DOMAIN snap, GOOD, now).store)
        /\ UNCHANGED <<orchVars, now, smVars, engineVars, notifyVars>>

RegistryNext ==
    \/ RegisterRule
    \/ RegistryPush
    \/ EvaluateAll

SpecRegistry == RegistryInit /\ [][RegistryNext]_vars

----------------------------------------------------------------------------
(* The orchestrator beside the fast path: recommendations of the decision *)
(* agent and operator commands handled by the orchestrator's task, while   *)
(* triggered rules act on the state machine                                *)

\* the global risk scores the decision agent recommends on: Slow50, Stop
OrchScores == {55, 85}

\* the commands an operator sends
OperatorCommands == {"SLOW_50", "ESTOP", "RESET", "NORMAL"}

\* the rules that trigger on the fast path
FastRuleIds == {"RS-013", "RS-023"}

\* the state machine started, no recommendation yet
OrchSpecInit ==
    LET m0 == [current |-> INIT, previous |-> NoState, history |-> << >>,
               entered_at |-> 0, call |-> NoCall]
        m1 == transition_to(m0, 0, NORMAL, "transition_to", "NONE", FALSE)
    IN  /\ now = 0
        /\ current_state = m1.current
        /\ previous_state = m1.previous
        /\ history = m1.history
        /\ state_entered_at = m1.entered_at
        /\ lastCall = m1.call
        /\ StoreInit
        /\ EngineInit
        /\ OrchInit

OrchTick ==
    /\ now < MaxOrchTicks * OrchTickMs
    /\ now' = now + OrchTickMs
    /\ UNCHANGED <<smVars, storeVars, engineVars, orchVars>>

\* a rule triggers in the rule engine: its actions are executed
FastPath ==
    \E id \in FastRuleIds :
        /\ SetMachine(execute_actions(Machine, now, id,
                                      get_welding_cell_rules(id).actions, 1, {}))
        /\ UNCHANGED <<now, storeVars, engineVars, orchVars>>

\* handle_message of an action_recommendation message of the decision
\* agent: _handle_recommendation(message)
HandleRecommendation ==
    \E score \in OrchScores :
        /\ ~in_executor
        /\ action_id < MaxRecs
        /\ action_id' = action_id + 1
        /\ pending' = Append(pending,
                             evaluate_and_recommend(action_id + 1, score, Machine, now))
        /\ UNCHANGED <<now, smVars, storeVars, engineVars, executions, in_executor,
                       lastExecuted, audit_log, agentVars>>

\* _handle_operator_command(message)
HandleOperatorCommand ==
    \E command \in OperatorCommands, hangs \in BOOLEAN :
        LET rec == operator_rec(command, Machine, now)
            e == orchestrator_execute_action(Machine, executions, rec, now, hangs)
        IN  /\ ~in_executor
            /\ Len(executions) < MaxExecs
            /\ SetMachine(e.machine)
            /\ executions' = e.executions
            /\ in_executor' = e.suspended
            /\ lastExecuted' = rec
            /\ audit_log' = log_audit_each(
                                log_audit(audit_log,
                                          AuditEntry("operator_command", command, "")),
                                e.audit, 1)
            /\ UNCHANGED <<now, storeVars, engineVars, action_id, pending, agentVars>>

\* one turn of the orchestrator's loop
OrchCycle ==
    \E hangs \in BOOLEAN :
        LET c == cycle(Machine, pending, executions, now, hangs)
        IN  /\ ~in_executor
            /\ Len(executions) < MaxExecs
            /\ SetMachine(c.machine)
            /\ pending' = c.pending
            /\ executions' = c.executions
            /\ in_executor' = c.suspended
            /\ lastExecuted' = IF pending = << >> THEN lastExecuted ELSE c.executed
            /\ audit_log' = log_audit_each(audit_log, c.audit, 1)
            /\ UNCHANGED <<now, storeVars, engineVars, action_id, agentVars>>

OrchNext ==
    \/ OrchTick
    \/ FastPath
    \/ HandleRecommendation
    \/ HandleOperatorCommand
    \/ OrchCycle

SpecOrch == OrchSpecInit /\ [][OrchNext]_vars

\* the loops of the orchestrator and of the clock keep running
SpecOrchLive == SpecOrch /\ WF_vars(OrchCycle) /\ WF_vars(OrchTick)

----------------------------------------------------------------------------
(* The orchestrator's loop with its inbox: messages arrive through         *)
(* receive, each turn of _main_loop runs _process_inbox and then cycle.    *)
(* The executors return.                                                   *)

\* the score of the recommendations sent
InboxScores == {55}

\* the types of the messages received: a recommendation of the decision
\* agent, a broadcast (the orchestrator's own system_state)
BroadcastTypes == {"system_state"}

InboxSpecInit == OrchSpecInit

\* the number of messages sent in all: one more than the inbox holds
MaxMessages == max_queue_size + 1

\* the number of messages passed to receive so far: each is in the inbox, or
\* was dropped, or was handled
MessagesSent == Len(inbox) + metrics.messages_dropped + metrics.messages_received

\* the clock goes from 0 to InboxTickMs, beyond the ttl of the messages
InboxTick ==
    /\ now = 0
    /\ now' = InboxTickMs
    /\ UNCHANGED <<smVars, storeVars, engineVars, orchVars>>

\* route_message delivers a broadcast: receive(message)
ReceiveBroadcast ==
    \E type \in BroadcastTypes :
        LET r == receive(inbox, metrics, AgentMessage(type, NoRec, now))
        IN  /\ MessagesSent < MaxMessages
            /\ inbox' = r.inbox
            /\ metrics' = r.metrics
            /\ UNCHANGED <<now, smVars, storeVars, engineVars, action_id, pending,
                           executions, in_executor, lastExecuted, audit_log,
                           lastHandled, lifecycleVars, riskVars>>

\* the decision agent recommends, route_message delivers the message:
\* receive(message)
ReceiveRecommendation ==
    \E score \in InboxScores :
        LET rec == evaluate_and_recommend(action_id + 1, score, Machine, None)
            r == receive(inbox, metrics, AgentMessage("action_recommendation", rec, now))
        IN  /\ action_id < MaxInboxRecs
            /\ MessagesSent < MaxMessages
            /\ action_id' = action_id + 1
            /\ inbox' = r.inbox
            /\ metrics' = r.metrics
            /\ UNCHANGED <<now, smVars, storeVars, engineVars, pending, executions,
                           in_executor, lastExecuted, audit_log, lastHandled,
                           lifecycleVars, riskVars>>

\* one turn of BaseAgent._main_loop: _process_inbox(), then cycle()
MainLoopTurn ==
    LET i == process_inbox(inbox, pending, metrics, now, 0, << >>)
        c == cycle(Machine, i.pending, executions, now, FALSE)
    IN  /\ metrics.cycles_executed < MaxCycles
        /\ Len(executions) < MaxExecs
        /\ inbox' = i.inbox
        /\ metrics' = [i.metrics EXCEPT !.cycles_executed = @ + 1]
        /\ lastHandled' = i.handled
        /\ SetMachine(c.machine)
        /\ pending' = c.pending
        /\ executions' = c.executions
        /\ in_executor' = c.suspended
        /\ lastExecuted' = IF i.pending = << >> THEN lastExecuted ELSE c.executed
        /\ audit_log' = log_audit_each(audit_log, c.audit, 1)
        /\ UNCHANGED <<now, storeVars, engineVars, action_id, lifecycleVars, riskVars>>

InboxNext ==
    \/ InboxTick
    \/ ReceiveBroadcast
    \/ ReceiveRecommendation
    \/ MainLoopTurn

SpecInbox == InboxSpecInit /\ [][InboxNext]_vars

----------------------------------------------------------------------------
(* The orchestrator's life cycle: start, stop, pause and resume are called *)
(* in any order on the agent as constructed, messages arrive, and the      *)
(* _main_loop task, while there is one, takes its turns                    *)

\* OrchestratorAgent(): _state is AgentState.INIT, _running is False, there
\* is no task and nothing in the audit log
LifecycleInit ==
    LET m0 == [current |-> INIT, previous |-> NoState, history |-> << >>,
               entered_at |-> 0, call |-> NoCall]
        m1 == transition_to(m0, 0, NORMAL, "transition_to", "NONE", FALSE)
    IN  /\ now = 0
        /\ current_state = m1.current
        /\ previous_state = m1.previous
        /\ history = m1.history
        /\ state_entered_at = m1.entered_at
        /\ lastCall = m1.call
        /\ StoreInit
        /\ EngineInit
        /\ action_id = 0
        /\ pending = << >>
        /\ executions = << >>
        /\ in_executor = FALSE
        /\ lastExecuted = NoRec
        /\ audit_log = << >>
        /\ inbox = << >>
        /\ metrics = [messages_received |-> 0, messages_dropped |-> 0,
                      cycles_executed |-> 0]
        /\ lastHandled = << >>
        /\ agent_state = INIT
        /\ running = FALSE
        /\ loop_task = "none"
        /\ RiskInit

\* await agent.start(); on_start logs system_start
AgentStart ==
    LET s == start(Agent)
    IN  /\ Len(audit_log) < MaxLifecycleAudits
        /\ SetAgent(s.agent)
        /\ audit_log' = IF s.started
                        THEN log_audit(audit_log, AuditEntry("system_start", "", ""))
                        ELSE audit_log
        /\ UNCHANGED <<now, smVars, storeVars, engineVars, action_id, pending,
                       executions, in_executor, lastExecuted, inbox, metrics,
                       lastHandled, riskVars>>

\* await agent.stop(); on_stop logs system_stop
AgentStop ==
    /\ Len(audit_log) < MaxLifecycleAudits
    /\ SetAgent(stop(Agent))
    /\ audit_log' = log_audit(audit_log, AuditEntry("system_stop", "", ""))
    /\ UNCHANGED <<now, smVars, storeVars, engineVars, action_id, pending,
                   executions, in_executor, lastExecuted, inbox, metrics,
                   lastHandled, riskVars>>

\* await agent.pause()
AgentPause ==
    /\ SetAgent(pause(Agent))
    /\ UNCHANGED <<now, smVars, storeVars, engineVars, action_id, pending,
                   executions, in_executor, lastExecuted, audit_log, inbox,
                   metrics, lastHandled, riskVars>>

\* await agent.resume()
AgentResume ==
    /\ SetAgent(resume(Agent))
    /\ UNCHANGED <<now, smVars, storeVars, engineVars, action_id, pending,
                   executions, in_executor, lastExecuted, audit_log, inbox,
                   metrics, lastHandled, riskVars>>

\* one iteration of `while self._running` in the _main_loop task: it sleeps
\* if the agent is paused and else runs _process_inbox() and cycle()
LifecycleLoopTurn ==
    /\ loop_task = "active"
    /\ running
    /\ IF agent_state = PAUSED THEN UNCHANGED vars ELSE MainLoopTurn

LifecycleNext ==
    \/ AgentStart
    \/ AgentStop
    \/ AgentPause
    \/ AgentResume
    \/ ReceiveBroadcast
    \/ ReceiveRecommendation
    \/ LifecycleLoopTurn

SpecLifecycle == LifecycleInit /\ [][LifecycleNext]_vars

----------------------------------------------------------------------------
(* The analysis agent: each cycle computes the four category risks from    *)
(* the signals it holds, then the global risk, and sends both              *)

\* the score that goes with a level of a category risk: the lower end of
\* the level's range (NONE 0, LOW 25, MEDIUM 50, HIGH 75, CRITICAL 100)
RiskScore(level) == [level |-> level, score |-> 25 * level]

\* the levels each category risk can take: _calculate_equipment_risk goes
\* up to HIGH only
CategoryLevels(category) == IF category = "equipment" THEN 0 .. 3 ELSE RiskLevel

\* the risk scores one cycle can compute
CategoryRisks ==
    {rs \in [{CategoryOrder[i] : i \in DOMAIN CategoryOrder} -> {RiskScore(l) : l \in RiskLevel}] :
        \A c \in DOMAIN rs : rs[c].level \in CategoryLevels(c)}

\* AnalysisAgent.cycle()
AnalysisCycleOn(rs) ==
    /\ risk_scores' = rs
    /\ risk_update' = risk_update_payload(rs)
    /\ UNCHANGED <<now, smVars, storeVars, engineVars, action_id, pending,
                   executions, in_executor, lastExecuted, audit_log, inbox,
                   metrics, lastHandled, lifecycleVars, decision_risk,
                   action_history, sent>>

AnalysisCycle == \E rs \in CategoryRisks : AnalysisCycleOn(rs)

AnalysisNext == AnalysisCycle

SpecAnalysis == Init /\ [][AnalysisNext]_vars

----------------------------------------------------------------------------
(* The decision agent: it receives the risk updates of the analysis agent  *)
(* and each cycle recommends on the last one                               *)

\* the category risks the analysis agent computes: none; all MEDIUM
\* (global score 50, Slow50, dominant distance); exposure HIGH above the
\* others (55, Slow50, dominant exposure); distance and collision CRITICAL
\* (83, Stop, dominant distance)
Risks(distance, collision, exposure, equipment) ==
    [c \in {CategoryOrder[i] : i \in DOMAIN CategoryOrder} |->
        RiskScore(CASE c = "distance" -> distance
                    [] c = "collision" -> collision
                    [] c = "exposure" -> exposure
                    [] c = "equipment" -> equipment)]

DecisionRisks ==
    {Risks(0, 0, 0, 0), Risks(2, 2, 2, 2), Risks(2, 2, 3, 2), Risks(4, 4, 3, 1)}

DecisionTick ==
    /\ now < MaxDecisionTicks * DecisionTickMs
    /\ now' = now + DecisionTickMs
    /\ UNCHANGED <<smVars, storeVars, engineVars, orchVars>>

\* the analysis agent's cycle
DecisionAnalysisCycle == \E rs \in DecisionRisks : AnalysisCycleOn(rs)

\* DecisionAgent.handle_message of the risk_update message
HandleRiskUpdate ==
    /\ risk_update # NoRisk
    /\ decision_risk' = risk_update
    /\ UNCHANGED <<now, smVars, storeVars, engineVars, action_id, pending,
                   executions, in_executor, lastExecuted, audit_log, inbox,
                   metrics, lastHandled, lifecycleVars, risk_scores, risk_update,
                   action_history, sent>>

\* DecisionAgent.cycle()
DecisionCycle ==
    LET d == decision_cycle(decision_risk, action_history, action_id, now)
    IN  /\ action_id < MaxDecisions
        /\ action_history' = d.action_history
        /\ action_id' = d.action_id
        /\ sent' = sent \o d.sent
        /\ UNCHANGED <<now, smVars, storeVars, engineVars, pending,
                       executions, in_executor, lastExecuted, audit_log, inbox,
                       metrics, lastHandled, lifecycleVars, risk_scores, risk_update,
                       decision_risk>>

DecisionNext ==
    \/ DecisionTick
    \/ DecisionAnalysisCycle
    \/ HandleRiskUpdate
    \/ DecisionCycle

SpecDecision == Init /\ [][DecisionNext]_vars

----------------------------------------------------------------------------
(* The decision agent on every global score: one risk update received,     *)
(* then its cycles                                                         *)

\* the global scores
GlobalScores == 0 .. 100

\* a risk_update with the global score has been handled
DetermineInit ==
    /\ now = 0
    /\ SMInit
    /\ StoreInit
    /\ EngineInit
    /\ action_id = 0
    /\ pending = << >>
    /\ executions = << >>
    /\ in_executor = FALSE
    /\ lastExecuted = NoRec
    /\ audit_log = <<AuditEntry("system_start", "", "")>>
    /\ inbox = << >>
    /\ metrics = [messages_received |-> 0, messages_dropped |-> 0, cycles_executed |-> 0]
    /\ lastHandled = << >>
    /\ agent_state = RUNNING
    /\ running = TRUE
    /\ loop_task = "active"
    /\ risk_scores = << >>
    /\ action_history = << >>
    /\ sent = << >>
    /\ \E score \in GlobalScores, level \in RiskLevel :
          /\ risk_update = [global_risk |-> [level |-> level, score |-> score,
                                             confidence |-> 85],
                            category_risks |-> << >>]
          /\ decision_risk = risk_update

DetermineNext == DecisionCycle

SpecDetermine == DetermineInit /\ [][DetermineNext]_vars

----------------------------------------------------------------------------
(* Arbitration on its own: the orchestrator's cycle run on every pending   *)
(* list of up to MaxPending recommendations of the decision agent          *)

\* the global risk scores: Alert, Slow50, Slow25
Scores == {30, 55, 70}

\* the times the recommendations were received at
ReceiptTimes == {0, OrchTickMs}

\* the state machine started; n recommendations received, in that order
ArbInit ==
    LET m0 == [current |-> INIT, previous |-> NoState, history |-> << >>,
               entered_at |-> 0, call |-> NoCall]
        m1 == transition_to(m0, 0, NORMAL, "transition_to", "NONE", FALSE)
    IN  /\ now = OrchTickMs
        /\ current_state = m1.current
        /\ previous_state = m1.previous
        /\ history = m1.history
        /\ state_entered_at = m1.entered_at
        /\ lastCall = m1.call
        /\ StoreInit
        /\ EngineInit
        /\ \E n \in 1 .. MaxPending :
              \E score \in [1 .. n -> Scores], at \in [1 .. n -> ReceiptTimes] :
                  /\ \A i \in 1 .. n - 1 : at[i] <= at[i + 1]
                  /\ action_id = n
                  /\ pending = [i \in 1 .. n |->
                                   evaluate_and_recommend(i, score[i], m1, at[i])]
        /\ executions = << >>
        /\ in_executor = FALSE
        /\ lastExecuted = NoRec
        /\ audit_log = <<AuditEntry("system_start", "", "")>>
        /\ AgentInit

ArbNext == OrchCycle

SpecArbitrate == ArbInit /\ [][ArbNext]_vars

----------------------------------------------------------------------------
(* Properties of the state machine *)

\* the entry points that pass force=True
ForcingEntryPoints == {"request_estop", "enter_fallback"}

\* C1: every StateTransition of the history is in the legal transition table
\* unless request_estop or enter_fallback issued it, and no other entry point
\* calls transition_to with force=True.
C1_HistoryLegalOrForced ==
    /\ \A i \in DOMAIN history :
          \/ history[i].to_state \in VALID_TRANSITIONS(history[i].from_state)
          \/ history[i].trigger \in ForcingEntryPoints
    /\ lastCall.force => lastCall.op \in ForcingEntryPoints

\* a history that holds a transition of the table and then a forced one
\* outside it
C1_Witness ==
    /\ Len(history) = 2
    /\ history[1].trigger = "request_estop"
    /\ history[1].to_state \in VALID_TRANSITIONS(history[1].from_state)
    /\ history[2].trigger = "enter_fallback"
    /\ history[2].to_state \notin VALID_TRANSITIONS(history[2].from_state)
    /\ lastCall.force

\* C2: once in EStop the machine is not in Normal again before it has passed
\* through Recovery: if the history holds a transition out of EStop and the
\* machine is in Normal, that transition or a later one entered Recovery.
C2_EStopLeavesOnlyThroughRecovery ==
    \A i \in DOMAIN history :
        (history[i].from_state = ESTOP /\ current_state = NORMAL)
            => \E j \in DOMAIN history : j >= i /\ history[j].to_state = RECOVERY

C4_EstopAndFallbackAlwaysAccepted ==
    /\ lastCall.op = "request_estop" => (lastCall.ret /\ current_state = ESTOP)
    /\ lastCall.op = "enter_fallback" => (lastCall.ret /\ current_state = FALLBACK)

\* enter_fallback called in EStop, where the table allows Recovery only
C4_Witness ==
    /\ lastCall.op = "enter_fallback"
    /\ lastCall.from = ESTOP
    /\ lastCall.target \notin VALID_TRANSITIONS(ESTOP)
    /\ current_state = FALLBACK

\* the step is (or repeats) a non-forced call whose target is neither the
\* current state nor allowed from it
RejectedCallStep ==
    /\ lastCall'.op # "none"
    /\ ~lastCall'.force
    /\ lastCall'.from = current_state
    /\ lastCall'.target # current_state
    /\ lastCall'.target \notin VALID_TRANSITIONS(current_state)

\* C5: a non-forced transition_to whose target differs from the current state
\* and is not allowed from it returns false, changes neither the state, the
\* previous state, the history nor the time the state was entered, and does
\* not invoke the callback.
C5_RejectedTransitionChangesNothing ==
    [][RejectedCallStep =>
          /\ ~lastCall'.ret
          /\ ~lastCall'.notified
          /\ UNCHANGED <<orchVars, current_state, previous_state, history, state_entered_at>>]_vars

\* a rejected call made after a transition and a clock tick
C5_Witness ==
    /\ lastCall.op = "request_normal"
    /\ lastCall.from = ESTOP
    /\ ~lastCall.ret
    /\ current_state = ESTOP
    /\ Len(history) = 1
    /\ now > state_entered_at

\* the step is (or repeats) a call whose target is the current state
SameStateCallStep ==
    /\ lastCall'.op # "none"
    /\ lastCall'.from = current_state
    /\ lastCall'.target = current_state

\* C6: transition_to with the current state as target, forced or not, returns
\* true, appends nothing to the history, changes neither the previous state
\* nor the time the state was entered, and does not invoke the callback.
C6_SameStateIsNoOp ==
    [][SameStateCallStep =>
          /\ lastCall'.ret
          /\ ~lastCall'.notified
          /\ UNCHANGED <<orchVars, current_state, previous_state, history, state_entered_at>>]_vars

\* request_estop in EStop, some time after EStop was entered
C6_Witness ==
    /\ lastCall.op = "request_estop"
    /\ lastCall.force
    /\ lastCall.from = ESTOP
    /\ lastCall.ret
    /\ current_state = ESTOP
    /\ previous_state = NORMAL
    /\ now > state_entered_at

----------------------------------------------------------------------------
(* Properties of the signal store *)

\* C8: a stored observation of quality Timeout holds the fail-safe value of
\* its signal's definition.
C8_TimeoutHoldsFailSafe ==
    \A id \in DOMAIN signals :
        signals[id].quality = TIMEOUT
            => signals[id].value = definitions[id].fail_safe_value

\* C9: for a signal of quality Timeout or Bad, get_signal_value with its
\* defaults and the rule engine's snapshot both give the fail-safe value.
C9_ReadersGetFailSafe ==
    \A id \in DOMAIN signals :
        signals[id].quality \in {TIMEOUT, BAD}
            => /\ get_signal_value(Store, id, None, TRUE)
                      = definitions[id].fail_safe_value
               /\ get_signal_values(Store)[id] = definitions[id].fail_safe_value

\* C25: registering again, with the definition it already has, an id that is
\* registered leaves the definitions and the stored observations as they were.
C25_ReRegistrationIsNoOp ==
    \A id \in DOMAIN definitions :
        register_signal(Store, id, definitions[id], now) = Store

\* C26: a watchdog sweep leaves every observation of quality Bad with quality
\* Bad, whatever its age.
C26_WatchdogKeepsBad ==
    \A id \in DOMAIN signals :
        signals[id].quality = BAD
            => check_timeouts(Store, now).signals[id].quality = BAD

\* the ids of UpdateIds that have no definition
UnknownIds == UpdateIds \ DOMAIN definitions

\* C27: update_signal of an id without definition returns false, leaves the
\* store as it was (no signal is created), notifies nobody and increments a
\* counter; update_signals_batch applies the known ids of a batch and skips
\* the others.
C27_UnknownIdDroppedAndCounted ==
    /\ \A id \in UnknownIds, value \in UpdateValues, quality \in SignalQuality :
           LET r == update_signal(Store, id, value, quality, None, now)
           IN  /\ r.ret = FALSE
               /\ r.store = Store
               /\ id \notin DOMAIN r.store.signals
               /\ ~r.notifies
               /\ r.incremented # {}
    /\ \A ids \in SUBSET UpdateIds, value \in UpdateValues :
           LET known == ids \cap DOMAIN definitions
               all == update_signals_batch(Store, [id \in ids |-> value], ids, GOOD, now)
               some == update_signals_batch(Store, [id \in known |-> value], known,
                                            GOOD, now)
           IN  all.store = some.store /\ all.count = Cardinality(known)

\* C24: every callback receives the updates of an id in the order they were
\* written.  The writes of SpecNotify are of increasing values, so the values
\* a callback has received for the id never decrease.
C24_DeliveryInWriteOrder ==
    \A callback \in DOMAIN received :
        \A i, j \in DOMAIN received[callback] :
            (i < j /\ received[callback][i].id = received[callback][j].id)
                => received[callback][i].value <= received[callback][j].value

----------------------------------------------------------------------------
(* Properties of the welding cell *)

\* plc_heartbeat has timed out while every other signal is fresh and benign
HeartbeatLostOthersFresh ==
    /\ signals["plc_heartbeat"].quality = TIMEOUT
    /\ \A id \in DOMAIN signals \ {"plc_heartbeat"} :
           signals[id].quality = GOOD /\ signals[id].value = Quiet[id]

\* C10: an evaluation cycle that runs while plc_heartbeat has quality Timeout,
\* all other signals fresh and benign, triggers RS-002 and leaves the state
\* machine in EStop.
C10_HeartbeatTimeoutLeadsToEStop ==
    [][(EvaluateAll /\ HeartbeatLostOthersFresh)
          => /\ \E i \in DOMAIN lastResults' :
                    lastResults'[i].rule_id = "RS-002" /\ lastResults'[i].triggered
             /\ current_state' = ESTOP]_vars

----------------------------------------------------------------------------
(* Properties of the rule engine *)

\* C11: when a rule with a cooldown C > 0 triggers again, at least C ms have
\* passed since its previous trigger, whatever sequence of evaluate_rule and
\* evaluate_all calls is made.
C11_CooldownBetweenTriggers ==
    [][\A id \in DOMAIN rules :
          LET C == get_welding_cell_rules(id).cooldown_ms
          IN  (/\ C > 0
               /\ rules[id].last_triggered # None
               /\ rules'[id].trigger_count > rules[id].trigger_count)
                  => rules'[id].last_triggered - rules[id].last_triggered >= C]_vars

\* RS-013 (cooldown 5000 ms) has triggered at time 0 and again one tick later
C11_Witness ==
    /\ "RS-013" \in DOMAIN rules
    /\ rules["RS-013"].trigger_count = 2
    /\ rules["RS-013"].last_triggered = EngineTickMs

\* the state an action of a rule demands, NoState when it demands none
DemandedState(action) ==
    CASE action = "estop" -> ESTOP
      [] action = "stop_cat1" -> STOP
      [] action = "slow_50" -> SLOW_50
      [] action = "slow_25" -> SLOW_25
      [] OTHER -> NoState

\* the states demanded by the enabled rules whose predicate holds on the
\* current signals
DemandedStates ==
    LET s == get_signal_values(Store)
        holding == {id \in DOMAIN rules :
                        /\ rules[id].enabled
                        /\ ~condition_raises(id, s)
                        /\ condition(id, s)}
    IN  UNION {{DemandedState(get_welding_cell_rules(id).actions[i]) :
                    i \in DOMAIN get_welding_cell_rules(id).actions} :
               id \in holding} \ {NoState}

\* a step that is one evaluate_all cycle in which no call raises
FaultFreeCycle ==
    LET r == evaluate_all(rules, stats, Machine, Store, now, rules_by_priority, {})
    IN  /\ stats' = r.stats
        /\ rules' = r.rules
        /\ current_state' = r.machine.current
        /\ history' = r.machine.history
        /\ UNCHANGED <<orchVars, now, storeVars>>

\* C12: when the predicates of rules demanding different states hold, the
\* state machine is after every evaluation cycle at least as conservative as
\* the most conservative of the demanded states.
C12_MostConservativeDemandWins ==
    [][(FaultFreeCycle /\ Cardinality(DemandedStates) >= 2)
          => \A d \in DemandedStates :
                max_speed_percent(current_state') <= max_speed_percent(d)]_vars

\* the cycle of evaluate_all on the current state, no call raising, stopped
\* after the k-th rule of the evaluation order
CycleUpTo(k) ==
    evaluate_each(rules, [stats EXCEPT !.eval_count = @ + 1], Machine, Store, now,
                  SubSeq(EvaluationOrder(rules_by_priority, 0), 1, k), 1, << >>, {})

CycleWith(F) ==
    LET r == evaluate_all(rules, stats, Machine, Store, now, rules_by_priority, F)
    IN  /\ stats' = r.stats
        /\ rules' = r.rules
        /\ lastResults' = r.results
        /\ current_state' = r.machine.current
        /\ history' = r.machine.history
        /\ lastCall' = r.machine.call
        /\ UNCHANGED <<orchVars, now, storeVars>>

\* the positions, in the evaluation order, of the rules whose predicate
\* raises in a cycle run on the current state
PredicateRaisesAt ==
    LET order == EvaluationOrder(rules_by_priority, 0)
        s == get_signal_values(Store)
    IN  {j \in DOMAIN order :
            /\ rules[order[j]].enabled
            /\ can_trigger(rules[order[j]], get_welding_cell_rules(order[j]).cooldown_ms, now)
            /\ condition_raises(order[j], s)}

\* the positions of the rules one of whose actions raises in a cycle that
\* ends with the results res, the calls of F raising
ActionRaisesAt(F, res) ==
    {j \in DOMAIN res : res[j].triggered /\ \E f \in F : f[1] = res[j].rule_id}

\* C15: in every cycle each rule gets its result whatever raises before it,
\* the actions after one that raises are executed, every rule whose predicate
\* or action raised has the error on its result, and the error counter grows
\* by the number of exceptions.
C15_ExceptionsTrappedRecordedCounted ==
    [][\A F \in FaultSets :
          CycleWith(F) =>
              LET order == EvaluationOrder(rules_by_priority, 0)
                  failed == PredicateRaisesAt \cup ActionRaisesAt(F, lastResults')
              IN  /\ Len(lastResults') = Len(order)
                  /\ \A j \in ActionRaisesAt(F, lastResults') :
                        lastResults'[j].actions_executed
                            = get_welding_cell_rules(order[j]).actions
                  /\ \A j \in failed : lastResults'[j].error
                  /\ stats'.error_count = stats.error_count + Cardinality(failed)]_vars

\* the evaluation order without the disabled rules
EnabledOrder ==
    SelectSeq(EvaluationOrder(rules_by_priority, 0), LAMBDA id : rules[id].enabled)

\* C16: no step changes the trigger count or the last-triggered time of a
\* rule that is disabled; an evaluation cycle gives each disabled rule a
\* result that is not triggered, has no error and no action executed, and
\* leaves the state machine, the rules and the counters as a cycle over the
\* enabled rules alone does; an enabled rule that may trigger and whose
\* predicate holds triggers in the cycle.
C16_DisabledRuleIsInert ==
    [][/\ \A id \in DOMAIN rules :
              ~rules[id].enabled
                  => /\ rules'[id].trigger_count = rules[id].trigger_count
                     /\ rules'[id].last_triggered = rules[id].last_triggered
       /\ \A F \in FaultSets :
              CycleWith(F) =>
                  LET order == EvaluationOrder(rules_by_priority, 0)
                      s == get_signal_values(Store)
                      r == evaluate_each(rules, [stats EXCEPT !.eval_count = @ + 1],
                                         Machine, Store, now, EnabledOrder, 1, << >>, F)
                  IN  /\ \A j \in DOMAIN order :
                            IF ~rules[order[j]].enabled
                            THEN lastResults'[j] = RuleResult(order[j])
                            ELSE (/\ can_trigger(rules[order[j]],
                                                 get_welding_cell_rules(order[j]).cooldown_ms,
                                                 now)
                                  /\ ~condition_raises(order[j], s)
                                  /\ condition(order[j], s))
                                     => lastResults'[j].triggered
                      /\ current_state' = r.machine.current
                      /\ history' = r.machine.history
                      /\ rules' = r.rules
                      /\ stats' = r.stats]_vars

\* RS-013 is disabled and has never triggered, although a cycle has run on
\* a fumes ratio above 120%: RS-020 triggered in it and the machine is in
\* Slow50, not in Stop
C16_Witness ==
    /\ "RS-013" \in DOMAIN rules
    /\ ~rules["RS-013"].enabled
    /\ rules["RS-013"].trigger_count = 0
    /\ signals["fumes_vlep_ratio"].value = 13
    /\ signals["fumes_vlep_ratio"].quality = GOOD
    /\ Len(lastResults) = 4
    /\ lastResults[2] = RuleResult("RS-013")
    /\ lastResults[3].triggered
    /\ current_state = SLOW_50

----------------------------------------------------------------------------
(* Properties of the orchestrator *)

\* ActionUrgency: LOW = 0 .. IMMEDIATE = 3
UrgencyRank(urgency) ==
    CASE urgency = "IMMEDIATE" -> 3
      [] urgency = "HIGH" -> 2
      [] urgency = "NORMAL" -> 1
      [] OTHER -> 0

\* C18: a cycle run on a non-empty pending list executes one recommendation of
\* the list: one of the highest urgency, among those one of the highest risk
\* score, among those one received earliest; it leaves the list empty and
\* starts no execution for any other recommendation.
C18_ArbitrationPicksBestAndClears ==
    [][(OrchCycle /\ pending # << >>)
          => LET w == lastExecuted'
             IN  /\ \E i \in DOMAIN pending : pending[i] = w
                 /\ \A i \in DOMAIN pending :
                       LET r == pending[i]
                       IN  /\ UrgencyRank(w.urgency) >= UrgencyRank(r.urgency)
                           /\ r.urgency = w.urgency => w.risk_score >= r.risk_score
                           /\ (r.urgency = w.urgency /\ r.risk_score = w.risk_score)
                                  => w.received_at <= r.received_at
                 /\ pending' = << >>
                 /\ Len(executions') = Len(executions) + 1
                 /\ executions'[Len(executions')].recommendation_id = w.id]_vars

\* three recommendations were pending and the cycle has executed the second
\* one received, and only that one
C18_Witness ==
    /\ action_id = 3
    /\ pending = << >>
    /\ lastExecuted.id = 2
    /\ Len(executions) = 1
    /\ executions[1].recommendation_id = 2

\* the permutations of 1 .. n
PositionPermutations(n) ==
    {f \in [1 .. n -> 1 .. n] : \A i, j \in 1 .. n : i # j => f[i] # f[j]}

\* whether (urgency, risk_score) of r is strictly lower than that of w
StrictlyLower(r, w) ==
    \/ UrgencyRank(r.urgency) < UrgencyRank(w.urgency)
    \/ r.urgency = w.urgency /\ r.risk_score < w.risk_score

\* C19: the recommendation arbitration selects from the pending list is the
\* one it selects from every list obtained by permuting, among the positions
\* they occupy, the recommendations strictly lower than it.
C19_WinnerStableUnderLowerPermutations ==
    pending # << >> =>
        LET w == arbitrate_recommendations(pending).selected
        IN  \A f \in PositionPermutations(Len(pending)) :
                (\A i \in DOMAIN pending : ~StrictlyLower(pending[i], w) => f[i] = i)
                    => arbitrate_recommendations(
                           [i \in DOMAIN pending |-> pending[f[i]]]).selected = w

\* three recommendations are pending, the second is the one selected and the
\* two others, which differ, are strictly lower
C19_Witness ==
    /\ Len(pending) = 3
    /\ arbitrate_recommendations(pending).selected = pending[2]
    /\ StrictlyLower(pending[1], pending[2])
    /\ StrictlyLower(pending[3], pending[2])
    /\ pending[1].risk_score # pending[3].risk_score

\* C13: when a cycle executes a queued recommendation and the state machine
\* has, since that recommendation was received, come to a state of lower max
\* speed, the execution does not take the machine to a state of higher max
\* speed.
C13_QueuedRecommendationNeverReRaises ==
    [][(OrchCycle /\ pending # << >>)
          => LET rec == lastExecuted'
             IN  max_speed_percent(current_state)
                     < max_speed_percent(rec.state_at_receipt)
                 => max_speed_percent(current_state')
                        <= max_speed_percent(current_state)]_vars

\* C17: the recommendation last passed to execution, of the decision agent or
\* made from an operator command, has urgency IMMEDIATE only with action STOP
\* or ESTOP.
C17_ImmediateOnlyForStops ==
    (lastExecuted # NoRec /\ lastExecuted.urgency = "IMMEDIATE")
        => lastExecuted.action \in {"STOP", "ESTOP"}

\* whether execution i has been EXECUTING for longer than action_timeout
OverdueExecuting(i) ==
    /\ i \in DOMAIN executions
    /\ executions[i].status = EXECUTING
    /\ now - executions[i].started_at > action_timeout_ms

\* whether execution i is marked TIMEOUT and the orchestrator's loop is not
\* inside an executor
TimedOutAndProceeding(i) ==
    /\ i \in DOMAIN executions
    /\ executions[i].status = EXEC_TIMEOUT
    /\ ~in_executor

\* C20: an execution that has been EXECUTING for longer than action_timeout
\* is eventually marked TIMEOUT, with the orchestrator out of the executor and
\* free to run its cycles.
C20_HungExecutorTimesOut ==
    \A i \in 1 .. MaxExecs : OverdueExecuting(i) ~> TimedOutAndProceeding(i)

\* the number of action_executed entries for action in the audit log
RECURSIVE ExecutedEntries(_, _, _)
ExecutedEntries(log, action, i) ==
    IF i > Len(log)
    THEN 0
    ELSE (IF log[i].event_type = "action_executed" /\ log[i].action = action
          THEN 1 ELSE 0) + ExecutedEntries(log, action, i + 1)

\* the orchestrator has just executed an operator command SLOW_50, logged last
\* in the audit log, and the machine is in SLOW_50
OperatorSlow50JustExecuted ==
    /\ lastExecuted.id = operator_rec("SLOW_50", Machine, now).id
    /\ lastExecuted.action = "SLOW_50"
    /\ now - lastExecuted.received_at < action_cooldown_ms
    /\ audit_log[Len(audit_log)] = AuditEntry("action_executed", "SLOW_50", SUCCESS)
    /\ current_state = SLOW_50

\* C28: an operator command SLOW_50 handled right after another one, within
\* the cooldown, adds no action_executed entry to the audit log (the two
\* commands make one entry) and leaves the machine in SLOW_50.
C28_RepeatedSlow50LoggedOnce ==
    [][(HandleOperatorCommand /\ OperatorSlow50JustExecuted
           /\ lastExecuted'.action = "SLOW_50")
          => /\ ExecutedEntries(audit_log', "SLOW_50", 1)
                    = ExecutedEntries(audit_log, "SLOW_50", 1)
             /\ current_state' = SLOW_50]_vars

\* C29: in ESTOP, the operator command RESET handled by the orchestrator takes
\* the machine to RECOVERY; in RECOVERY, the operator command NORMAL takes it
\* to NORMAL.
C29_OperatorResetThenNormal ==
    [][HandleOperatorCommand
          => /\ (current_state = ESTOP /\ lastExecuted'.action = "RESET")
                    => current_state' = RECOVERY
             /\ (current_state = RECOVERY /\ lastExecuted'.action = "NORMAL")
                    => current_state' = NORMAL]_vars

\* the step appends at least n entries to the audit log
AuditGrowsBy(n) == Len(audit_log') >= Len(audit_log) + n

\* the executions the step takes from EXECUTING to TIMEOUT
TimedOutInStep ==
    {i \in DOMAIN executions :
        /\ executions[i].status = EXECUTING
        /\ i \in DOMAIN executions'
        /\ executions'[i].status = EXEC_TIMEOUT}

\* C30: the audit log gets an entry for every recommendation received, for
\* every arbitration outcome, for the start and for the end of every
\* execution, for every execution timeout and for every operator command.
C30_EveryEventAudited ==
    [][/\ HandleRecommendation => AuditGrowsBy(1)
       /\ (OrchCycle /\ pending # << >>)
              => AuditGrowsBy(IF in_executor' THEN 2 ELSE 3)
       /\ HandleOperatorCommand
              => AuditGrowsBy(IF in_executor' THEN 2 ELSE 3)
       /\ (OrchCycle /\ pending = << >>)
              => AuditGrowsBy(Cardinality(TimedOutInStep))]_vars

----------------------------------------------------------------------------
(* Properties of the orchestrator's inbox *)

\* whether the message is older than its ttl
Aged(message) == now - message.timestamp > message.ttl

\* C21: a turn of the orchestrator's loop handles every recommendation that
\* is in the inbox, not expired, when the turn starts, whatever is queued
\* ahead of it: the message is passed to handle_message and the pending list
\* has been arbitrated (it is empty) when the turn ends.
C21_RecommendationHandledInItsCycle ==
    [][MainLoopTurn
          => \A i \in DOMAIN inbox :
                 (inbox[i].type = "action_recommendation" /\ ~Aged(inbox[i]))
                     => /\ \E j \in DOMAIN lastHandled' : lastHandled'[j] = inbox[i]
                        /\ pending' = << >>]_vars

\* the messages a caller may pass to receive
ReceivableMessages ==
    {AgentMessage(type, NoRec, now) : type \in BroadcastTypes}
        \cup {AgentMessage("action_recommendation",
                           evaluate_and_recommend(action_id + 1, score, Machine, None), now) :
                 score \in InboxScores}

\* C22: the inbox never holds more than max_queue_size messages; receive on
\* an inbox that holds max_queue_size messages returns false, adds one to
\* messages_dropped and leaves the inbox as it was.
C22_InboxBoundedDropsCounted ==
    /\ Len(inbox) <= max_queue_size
    /\ Len(inbox) = max_queue_size
           => \A message \in ReceivableMessages :
                  LET r == receive(inbox, metrics, message)
                  IN  /\ r.ret = FALSE
                      /\ r.inbox = inbox
                      /\ r.metrics = [metrics EXCEPT !.messages_dropped = @ + 1]

\* the inbox is full and a message has been dropped
C22_Witness ==
    /\ Len(inbox) = max_queue_size
    /\ metrics.messages_dropped = 1
    /\ metrics.cycles_executed = 0

\* C23: a turn of the loop passes no expired message to handle_message; the
\* expired messages it dequeues leave the inbox, each adding one to
\* messages_dropped and nothing to messages_received.
C23_ExpiredDroppedNeverDelivered ==
    [][MainLoopTurn
          => LET n == Len(inbox) - Len(inbox')
                 dequeued == SubSeq(inbox, 1, n)
                 Fresh(message) == ~Aged(message)
             IN  /\ \A j \in DOMAIN lastHandled' : ~Aged(lastHandled'[j])
                 /\ inbox' = SubSeq(inbox, n + 1, Len(inbox))
                 /\ lastHandled' = SelectSeq(dequeued, Fresh)
                 /\ metrics'.messages_dropped
                        = metrics.messages_dropped + Len(SelectSeq(dequeued, Aged))
                 /\ metrics'.messages_received
                        = metrics.messages_received + Len(lastHandled')]_vars

\* a turn has dequeued an expired message and a fresh one: the first was
\* dropped, the second handled
C23_Witness ==
    /\ metrics.cycles_executed = 1
    /\ metrics.messages_dropped = 1
    /\ metrics.messages_received = 1
    /\ Len(lastHandled) = 1
    /\ lastHandled[1].timestamp = now
    /\ inbox = << >>

\* C31: the orchestrator executes no recommendation whose auto_execute flag
\* is false.  It has no handler for an operator acknowledgement (its handlers
\* are those of action_recommendation and operator_command), so none has been
\* received for any recommendation when it executes one.
C31_NoExecutionWithoutAck ==
    lastExecuted.id # None => lastExecuted.auto_execute

----------------------------------------------------------------------------
(* Properties of the loop of integration.py *)

\* the distances fed in turn and the states allowed after each
DistanceSequence == <<2500, 1500, 1000, 700, 450>>
StatesAfter(k) ==
    CASE k = 0 -> {NORMAL}
      [] k = 1 -> {NORMAL}
      [] k = 2 -> {NORMAL, WARNING}
      [] k = 3 -> {SLOW_50}
      [] k = 4 -> {SLOW_25}
      [] k = 5 -> {ESTOP}

\* C32: from NORMAL, the loop fed 2500, 1500, 1000, 700, 450, one value per
\* turn, goes through NORMAL, NORMAL or WARNING, SLOW_50, SLOW_25, ESTOP: the
\* k-th turn, taken in a state allowed after k - 1 values and fed the k-th
\* value, ends in a state allowed after k values.
C32_DistanceSequenceEscalates ==
    [][\A k \in DOMAIN DistanceSequence :
          (/\ stats.eval_count = k - 1
           /\ current_state \in StatesAfter(k - 1)
           /\ LoopTurn(DistanceSequence[k]))
              => current_state' \in StatesAfter(k)]_vars

----------------------------------------------------------------------------
(* Properties of the state machine's history *)

\* C33: whatever the order in which the tasks' calls of transition_to and of
\* the request_* methods take effect, the history is a chain: each entry
\* starts from the state the entry before it ended in, the last entry ends in
\* current_state and starts from previous_state, and no entry is a
\* transition from a state to itself.
C33_HistoryIsChain ==
    /\ \A i \in DOMAIN history :
          /\ history[i].from_state # history[i].to_state
          /\ i > 1 => history[i].from_state = history[i - 1].to_state
    /\ history # << >>
          => /\ history[Len(history)].to_state = current_state
             /\ history[Len(history)].from_state = previous_state

\* a full history whose oldest entry has been evicted, the last call having
\* been accepted after one that was rejected or a no-op could have come in
\* between
C33_Witness ==
    /\ Len(history) = MaxHistory
    /\ history[1].from_state # INIT
    /\ lastCall.notified
    /\ history[Len(history)].to_state = current_state
    /\ current_state = ESTOP

\* C34: the history never holds more than max_history entries; an accepted
\* transition appends its entry, and when the history was full the oldest
\* entry is evicted, the others keeping their order before the new one; a
\* call that is not accepted leaves the history as it was.
C34_HistoryBounded ==
    [][/\ Len(history') <= MaxHistory
       /\ current_state' = current_state => history' = history
       /\ current_state' # current_state
             => LET kept == IF Len(history) < MaxHistory
                            THEN history
                            ELSE SubSeq(history, 2, Len(history))
                    entry == history'[Len(history')]
                IN  /\ Len(history') = Len(kept) + 1
                    /\ SubSeq(history', 1, Len(kept)) = kept
                    /\ entry.from_state = current_state
                    /\ entry.to_state = current_state']_vars

\* the history was full when a transition was accepted: its oldest entry is
\* gone and the new entry is last
C34_Witness ==
    /\ Len(history) = MaxHistory
    /\ history[1].from_state = NORMAL
    /\ history[1].to_state = STOP
    /\ history[Len(history)].to_state = RECOVERY
    /\ lastCall.notified

----------------------------------------------------------------------------
(* Properties of the analysis and decision agents *)

\* C35: the level of the global risk the analysis agent computes and sends
\* is the maximum of the levels of the category risks it is computed from.
C35_GlobalLevelIsMaxOfCategories ==
    risk_update # NoRisk
        => LET levels == {risk_scores[c].level : c \in DOMAIN risk_scores}
           IN  /\ risk_update.category_risks = risk_scores
               /\ risk_update.global_risk.level \in levels
               /\ \A l \in levels : l <= risk_update.global_risk.level

\* one category is CRITICAL and the others are lower: the global level is
\* CRITICAL although the weighted score is that of a LOW risk
C35_Witness ==
    /\ risk_update # NoRisk
    /\ risk_scores["distance"].level = 4
    /\ risk_scores["collision"].level = 0
    /\ risk_scores["exposure"].level = 1
    /\ risk_scores["equipment"].level = 0
    /\ risk_update.global_risk.level = 4
    /\ risk_update.global_risk.score < 50

\* the action and urgency for a score
Decision(action, urgency) == [action |-> action, urgency |-> urgency]

SameKey(i, j) ==
    /\ sent[i].action = sent[j].action
    /\ sent[i].risk_category = sent[j].risk_category

\* the key of the recommendation a cycle builds on the risks received
CycleKey ==
    <<determine_action(decision_risk.global_risk.score).action,
      find_dominant_risk(decision_risk.category_risks, 1, 0, "unknown")>>

\* a recommendation with the key was sent less than the cooldown ago
SentWithinCooldown(key) ==
    \E i \in DOMAIN sent :
        /\ <<sent[i].action, sent[i].risk_category>> = key
        /\ now - sent[i].timestamp < action_cooldown_ms

\* a cycle that builds a recommendation: it is suppressed, and then nothing
\* is sent and no timestamp is recorded, exactly when one with its key was
\* sent within the cooldown; otherwise it is sent now
CooldownStep ==
    action_id' = action_id + 1
        => IF SentWithinCooldown(CycleKey)
           THEN sent' = sent /\ action_history' = action_history
           ELSE /\ Len(sent') = Len(sent) + 1
                /\ SubSeq(sent', 1, Len(sent)) = sent
                /\ <<sent'[Len(sent')].action, sent'[Len(sent')].risk_category>> = CycleKey
                /\ sent'[Len(sent')].timestamp = now

\* C38: two recommendations the decision agent sent with the same (action,
\* dominant category) key are at least action_cooldown apart; a suppressed
\* recommendation is not sent and records no timestamp, so it does not
\* restart the cooldown; a recommendation is suppressed only by an emission
\* of its own key, never by the cooldown of another key.
C38_CooldownPerKey ==
    /\ [](\A i, j \in DOMAIN sent :
              (i < j /\ SameKey(i, j))
                  => sent[j].timestamp - sent[i].timestamp >= action_cooldown_ms)
    /\ [][CooldownStep]_vars

\* Slow50 on distance was sent, then a second one was suppressed, then the
\* escalation to Stop on distance was sent within the cooldown of the first,
\* then Slow50 on distance again once its cooldown had elapsed
C38_Witness ==
    /\ Len(sent) = 3
    /\ action_id = 4
    /\ sent[1].action = "SLOW_50" /\ sent[1].risk_category = "distance"
    /\ sent[2].action = "STOP" /\ sent[2].risk_category = "distance"
    /\ sent[2].timestamp - sent[1].timestamp < action_cooldown_ms
    /\ SameKey(1, 3)
    /\ sent[3].timestamp - sent[1].timestamp = action_cooldown_ms

----------------------------------------------------------------------------
(* Properties of the agent's life cycle *)

\* C40: after any sequence of start, stop, pause and resume, the agent
\* reports RUNNING (is_running) only if its _main_loop task is active; after
\* stop() no pause()/resume() makes it RUNNING without a new start().
C40_RunningOnlyWithLoop ==
    agent_state = RUNNING => (running /\ loop_task = "active")

\* the agent was started and stopped, its task is cancelled, and it reports
\* RUNNING
C40_RunningAfterStop ==
    /\ agent_state = RUNNING
    /\ ~running
    /\ loop_task = "cancelled"
    /\ Len(audit_log) = 2
    /\ audit_log[2].event_type = "system_stop"

----------------------------------------------------------------------------
(* Properties of the rule engine's registry *)

\* the rule ids of the results, in their order
ResultIds(results) == [i \in DOMAIN results |-> results[i].rule_id]

\* the rule ids of the transitions of h that a rule requested, in their order
RECURSIVE RuleTransitions(_)
RuleTransitions(h) ==
    IF h = << >>
    THEN << >>
    ELSE IF Head(h).rule_id = "NONE"
    THEN RuleTransitions(Tail(h))
    ELSE <<Head(h).rule_id>> \o RuleTransitions(Tail(h))

\* the priorities of the rules of ids never decrease along ids
PriorityOrdered(ids) ==
    \A i, j \in DOMAIN ids :
        i < j => RuleOf(ids[i]).priority <= RuleOf(ids[j]).priority

\* a cycle of evaluate_all: the results are those of the P0 rules, then of
\* the P1 rules, and so on to P4, in the order of registration within each
\* priority; a triggered rule has executed its actions in their listed
\* order; and the transitions the cycle records on a history without rule
\* transitions are in priority order
EvaluatedInPriorityOrder ==
    stats'.eval_count = stats.eval_count + 1
        => /\ ResultIds(lastResults') =
                  rules_by_priority[0] \o rules_by_priority[1] \o rules_by_priority[2]
                      \o rules_by_priority[3] \o rules_by_priority[4]
           /\ PriorityOrdered(ResultIds(lastResults'))
           /\ \A i \in DOMAIN lastResults' :
                  lastResults'[i].actions_executed =
                      IF lastResults'[i].triggered
                      THEN RuleOf(lastResults'[i].rule_id).actions
                      ELSE << >>
           /\ RuleTransitions(history) = << >>
                  => PriorityOrdered(RuleTransitions(history'))

\* C36: in every evaluate_all cycle the rules are evaluated in strict
\* priority order P0 to P4, in registration order within one priority: no
\* rule of a lower priority is evaluated, and none of its actions executed,
\* before every rule of each higher priority has been evaluated, and a
\* triggered rule's actions run in their listed order.
C36_StrictPriorityOrder == [][EvaluatedInPriorityOrder]_vars

\* a cycle evaluated a P0, a P1 and two P2 rules, the P2 rules registered
\* in the order RS-023, RS-020; all triggered
C36_Witness ==
    /\ ResultIds(lastResults) = <<"RS-001", "RS-010", "RS-023", "RS-020">>
    /\ \A i \in DOMAIN lastResults : lastResults[i].triggered
    /\ lastResults[1].actions_executed = <<"estop", "log">>
    /\ current_state = ESTOP

\* C39: in one evaluate_all cycle each rule id is evaluated at most once, and
\* so triggers and executes its actions at most once per cycle, after any
\* sequence of register_rule calls, including one with an id that is
\* already registered.
C39_EachRuleOncePerCycle ==
    \A i, j \in DOMAIN lastResults :
        lastResults[i].rule_id = lastResults[j].rule_id => i = j

\* RS-001 was registered twice, and one cycle triggered it twice
C39_TriggeredTwiceInOneCycle ==
    /\ rules_by_priority[0] = <<"RS-001", "RS-001">>
    /\ stats.eval_count = 1
    /\ Len(lastResults) = 2
    /\ lastResults[1].triggered /\ lastResults[2].triggered
    /\ rules["RS-001"].trigger_count = 2
    /\ stats.trigger_count = 2

====
